---- MODULE Spec2Model ----
(***************************************************************************)
(* A model of the CKImageReader codecs (BMP, TGA, PCX) of CKPlugins.       *)
(*                                                                         *)
(* A file is modelled by its parsed header fields, the number of header    *)
(* bytes that are present, and the bytes that follow the header.  A        *)
(* canonical pixel buffer is a sequence of BGRA pixels <<b, g, r, a>>,     *)
(* one per 4-byte cell of the allocation; byte offsets of the code are     *)
(* kept in units of 4 bytes, so that the 32-bit product width*4 is         *)
(* 4 * (width % 2^30) and stays inside the integers TLC can represent.     *)
(***************************************************************************)
EXTENDS Integers, Sequences, FiniteSets, TLC

VARIABLES
    input,      \* the file handed to the reader
    memOut,     \* outcome of ReadMemory on input
    fileOut,    \* outcome of ReadFile on input
    saved,      \* the file written by SaveMemory from memOut
    saveOpt,    \* the options SaveMemory was called with
    reOut,      \* outcome of ReadMemory on saved
    props,      \* the reader's m_Properties (lifecycle model)
    heap,       \* the pixel buffers allocated so far (lifecycle model)
    alive       \* the reader object exists (lifecycle model)

vars == <<input, memOut, fileOut, saved, saveOpt, reOut, props, heap, alive>>

-----------------------------------------------------------------------------
(* Bounds of the model.                                                    *)

MaxArea == 4
MaxRleLen == 4
MaxTokens == 2
PatternLen == 3
MaxReads == 3

-----------------------------------------------------------------------------
(* Error codes of CKBitmapReader, kept symbolic.                           *)

CK_OK == "Success"
CKBITMAPERROR_GENERIC == "Generic"
CKBITMAPERROR_READERROR == "ReadError"
CKBITMAPERROR_UNSUPPORTEDFILE == "UnsupportedFile"
CKBITMAPERROR_FILECORRUPTED == "FileCorrupted"

Byte == 0 .. 255

Min(a, b) == IF a < b THEN a ELSE b

\* 2^30: a 32-bit unsigned product of 4 and n is 4 * (n % Pow30).
Pow30 == 2 ^ 30

Opaque == <<255, 255, 255, 255>>

\* The outcome of one decode call.  pixels is the destination allocation as
\* 4-byte cells; allocPx its size in cells (-1: none was made).
NoPixels == << >>

Outcome(code, w, h, px, alloc, depth, oobW, oobR, uninit) ==
    [code |-> code, width |-> w, height |-> h, pixels |-> px, allocPx |-> alloc,
     bitDepth |-> depth, oobWrite |-> oobW, oobRead |-> oobR, uninitRead |-> uninit]

Failure(code) == Outcome(code, 0, 0, NoPixels, -1, 0, FALSE, FALSE, FALSE)

\* A decode that allocated the destination and then failed (buffer released).
FailureAfterAlloc(code, alloc) ==
    Outcome(code, 0, 0, NoPixels, alloc, 0, FALSE, FALSE, FALSE)

NotRun == Failure("NotRun")

\* Byte i (0-based) of a byte sequence; a read outside it yields junk.
ByteAt(s, i, junk) == IF i >= 0 /\ i < Len(s) THEN s[i + 1] ELSE junk

\* The bytes of s from 0-based offset pos on.
BytesFrom(s, pos) == IF pos >= Len(s) THEN << >> ELSE SubSeq(s, pos + 1, Len(s))

\* A buffer of n cells all holding p.
Filled(n, p) == [i \in 1 .. n |-> p]

\* Store pixel p in cell k (0-based) of buf; a cell outside it is not stored.
Store(buf, k, p) == IF k >= 0 /\ k < Len(buf) THEN [buf EXCEPT ![k + 1] = p] ELSE buf

-----------------------------------------------------------------------------
(* Safe arithmetic.                                                        *)

\* All sequences over S of length at most n.
RECURSIVE SeqsUpTo(_, _)
SeqsUpTo(S, n) ==
    IF n = 0 THEN {<< >>}
    ELSE LET shorter == SeqsUpTo(S, n - 1)
         IN  shorter \cup {Append(q, x) : q \in {r \in shorter : Len(r) = n - 1}, x \in S}

SeqsOfLen(S, n) == {q \in SeqsUpTo(S, n) : Len(q) = n}

RECURSIVE Flatten(_)
Flatten(ss) == IF Len(ss) = 0 THEN << >> ELSE Head(ss) \o Flatten(SubSeq(ss, 2, Len(ss)))

\* a * b <= 0xFFFFFFFF, for a < 2^31, computed without leaving 32 signed bits.
SafeMul32(a, b) ==
    \/ b <= 1
    \/ a <= 4 * ((Pow30 - 1) \div b) + (4 * ((Pow30 - 1) % b) + 3) \div b

-----------------------------------------------------------------------------
(* TGA: coordinate mapping.                                                *)

TGA_TYPE_COLORMAP == 1
TGA_TYPE_TRUECOLOR == 2
TGA_TYPE_GRAYSCALE == 3
TGA_TYPE_RLE_COLORMAP == 9
TGA_TYPE_RLE_TRUECOLOR == 10
TGA_TYPE_RLE_GRAYSCALE == 11

TgaHeaderSize == 18

\* Variant of DeinterleaveY whose second group of four-way rows is one row short
\* for some heights.
DeinterleaveYShort(fileY, height, mode) ==
    IF mode = 0 THEN fileY
    ELSE IF mode = 1 THEN
        LET evenCount == (height + 1) \div 2
        IN  IF fileY < evenCount THEN fileY * 2 ELSE (fileY - evenCount) * 2 + 1
    ELSE
        LET c0 == (height + 3) \div 4
            c1 == (height + 1) \div 4
            c2 == (height + 1) \div 4
        IN  IF fileY < c0 THEN fileY * 4
            ELSE IF fileY - c0 < c1 THEN (fileY - c0) * 4 + 1
            ELSE IF fileY - c0 - c1 < c2 THEN (fileY - c0 - c1) * 4 + 2
            ELSE (fileY - c0 - c1 - c2) * 4 + 3

DeinterleaveY(fileY, height, mode) ==
    IF mode = 0 THEN fileY
    ELSE IF mode = 1 THEN
        LET evenCount == (height + 1) \div 2
        IN  IF fileY < evenCount THEN fileY * 2 ELSE (fileY - evenCount) * 2 + 1
    ELSE
        LET c0 == (height + 3) \div 4
            c1 == (height + 2) \div 4
            c2 == (height + 1) \div 4
        IN  IF fileY < c0 THEN fileY * 4
            ELSE IF fileY - c0 < c1 THEN (fileY - c0) * 4 + 1
            ELSE IF fileY - c0 - c1 < c2 THEN (fileY - c0 - c1) * 4 + 2
            ELSE (fileY - c0 - c1 - c2) * 4 + 3

MapX(x, w, rtl) == IF rtl THEN w - 1 - x ELSE x

MapYFlipped(y, h, td, interleave) ==
    LET logical == DeinterleaveY(y, h, interleave)
    IN  IF td THEN h - 1 - logical ELSE logical

MapY(y, h, td, interleave) ==
    LET logical == DeinterleaveY(y, h, interleave)
    IN  IF td THEN logical ELSE h - 1 - logical

-----------------------------------------------------------------------------
(* TGA: pixel decoding.                                                    *)

ReadLE16(s, i, junk) == ByteAt(s, i, junk) + 256 * ByteAt(s, i + 1, junk)

Decode15or16(c, alphaBits) ==
    << ((c % 32) * 255) \div 31,
       (((c \div 32) % 32) * 255) \div 31,
       (((c \div 1024) % 32) * 255) \div 31,
       IF alphaBits > 0 THEN (IF (c \div 32768) % 2 = 1 THEN 255 ELSE 0) ELSE 255 >>

\* ctx: the TgaContext; index: the sample read from the pixel data.
DecodePaletteEntry(ctx, index) ==
    LET idx == index - ctx.colorMapOrigin
        e == idx * ctx.colorMapBytesPerEntry
        cm == ctx.colorMap
    IN  IF Len(cm) = 0 \/ idx < 0 \/ idx >= ctx.colorMapEntries THEN <<0, 0, 0, 255>>
        ELSE IF ctx.colorMapDepth \in {15, 16} THEN
            Decode15or16(ReadLE16(cm, e, 0),
                         IF ctx.colorMapDepth = 16 THEN ctx.alphaBits ELSE 0)
        ELSE IF ctx.colorMapDepth = 24 THEN
            <<ByteAt(cm, e, 0), ByteAt(cm, e + 1, 0), ByteAt(cm, e + 2, 0), 255>>
        ELSE IF ctx.colorMapDepth = 32 THEN
            <<ByteAt(cm, e, 0), ByteAt(cm, e + 1, 0), ByteAt(cm, e + 2, 0), ByteAt(cm, e + 3, 0)>>
        ELSE <<0, 0, 0, 255>>

\* The pixel whose sample starts at 0-based offset pos of src.
DecodePixel(ctx, src, pos, junk) ==
    IF ctx.hasColorMap THEN
        DecodePaletteEntry(ctx, IF ctx.pixelDepth = 8 THEN ByteAt(src, pos, junk)
                                ELSE ReadLE16(src, pos, junk))
    ELSE IF ctx.isGrayscale THEN
        << ByteAt(src, pos, junk), ByteAt(src, pos, junk), ByteAt(src, pos, junk),
           IF ctx.pixelDepth = 16 THEN ByteAt(src, pos + 1, junk) ELSE 255 >>
    ELSE IF ctx.pixelDepth \in {15, 16} THEN
        Decode15or16(ReadLE16(src, pos, junk),
                     IF ctx.pixelDepth = 16 THEN ctx.alphaBits ELSE 0)
    ELSE IF ctx.pixelDepth = 24 THEN
        <<ByteAt(src, pos, junk), ByteAt(src, pos + 1, junk), ByteAt(src, pos + 2, junk), 255>>
    ELSE IF ctx.pixelDepth = 32 THEN
        <<ByteAt(src, pos, junk), ByteAt(src, pos + 1, junk), ByteAt(src, pos + 2, junk),
          ByteAt(src, pos + 3, junk)>>
    ELSE <<0, 0, 0, 255>>

\* Variant of OutputHasAlpha for which only 32-bit colour-map entries carry
\* alpha.
OutputHasAlphaMap32(ctx) ==
    IF ctx.hasColorMap THEN ctx.colorMapDepth = 32
    ELSE IF ctx.isGrayscale THEN ctx.pixelDepth = 16
    ELSE ctx.pixelDepth = 32 \/ (ctx.pixelDepth = 16 /\ ctx.alphaBits > 0)

OutputHasAlpha(ctx) ==
    IF ctx.hasColorMap THEN
        ctx.colorMapDepth = 32 \/ (ctx.colorMapDepth = 16 /\ ctx.alphaBits > 0)
    ELSE IF ctx.isGrayscale THEN ctx.pixelDepth = 16
    ELSE ctx.pixelDepth = 32 \/ (ctx.pixelDepth = 16 /\ ctx.alphaBits > 0)

-----------------------------------------------------------------------------
(* TGA: the byte source and the header parser.                             *)
(*                                                                         *)
(* A TGA file: hdrBytes of the 18-byte header are present (fewer than 18   *)
(* only when nothing follows), the header fields, and body, the bytes      *)
(* after the header (image id, colour map, pixel data, anything else).     *)

TgaFileSize(f) == f.hdrBytes + Len(f.body)

\* TgaMemorySource::Skip fails past the end; TgaFileSource::Skip is an fseek,
\* which succeeds past the end of the file.
TgaSkipOk(kind, pos, n, size) == IF kind = "memory" THEN pos + n <= size ELSE TRUE

\* Read of both sources: all n bytes or failure.
TgaReadOk(pos, n, size) == pos + n <= size

TgaContext(f) ==
    [ hasColorMap |-> f.imageType \in {TGA_TYPE_COLORMAP, TGA_TYPE_RLE_COLORMAP},
      isGrayscale |-> f.imageType \in {TGA_TYPE_GRAYSCALE, TGA_TYPE_RLE_GRAYSCALE},
      isRLE |-> f.imageType \in {TGA_TYPE_RLE_COLORMAP, TGA_TYPE_RLE_TRUECOLOR,
                                 TGA_TYPE_RLE_GRAYSCALE},
      width |-> f.width, height |-> f.height, pixelDepth |-> f.pixelDepth,
      alphaBits |-> f.imageDescriptor % 16,
      interleaveMode |-> (f.imageDescriptor \div 64) % 4,
      isRightToLeft |-> (f.imageDescriptor \div 16) % 2 = 1,
      isTopDown |-> (f.imageDescriptor \div 32) % 2 = 1,
      colorMapOrigin |-> f.colorMapOrigin,
      colorMapDepth |-> f.colorMapDepth,
      colorMapEntries |-> 0, colorMapBytesPerEntry |-> 0, colorMap |-> << >>,
      srcBytesPerPixel |-> (f.pixelDepth + 7) \div 8,
      pos |-> TgaHeaderSize, result |-> CK_OK ]

TgaFail(ctx, code) == [ctx EXCEPT !.result = code]

\* The validation that follows the colour-map read.
TgaValidateDepths(ctx, f) ==
    IF ctx.hasColorMap THEN
        IF f.colorMapType # 1 \/ Len(ctx.colorMap) = 0 \/ ctx.colorMapEntries = 0
           \/ ctx.colorMapBytesPerEntry = 0
        THEN TgaFail(ctx, CKBITMAPERROR_FILECORRUPTED)
        ELSE IF ctx.pixelDepth \notin {8, 16} THEN TgaFail(ctx, CKBITMAPERROR_UNSUPPORTEDFILE)
        ELSE IF f.colorMapDepth \notin {15, 16, 24, 32}
        THEN TgaFail(ctx, CKBITMAPERROR_UNSUPPORTEDFILE)
        ELSE ctx
    ELSE IF ctx.isGrayscale THEN
        IF ctx.pixelDepth \notin {8, 16} THEN TgaFail(ctx, CKBITMAPERROR_UNSUPPORTEDFILE)
        ELSE ctx
    ELSE IF ctx.pixelDepth \notin {15, 16, 24, 32}
        THEN TgaFail(ctx, CKBITMAPERROR_UNSUPPORTEDFILE)
        ELSE ctx

\* The colour-map read, at source position pos (after the image id).
TgaReadColorMap(ctx, f, pos) ==
    IF f.colorMapType = 1 /\ f.colorMapLength > 0 THEN
        LET bpe == (f.colorMapDepth + 7) \div 8
            cmSize == f.colorMapLength * bpe
        IN  IF bpe = 0 THEN TgaFail(ctx, CKBITMAPERROR_FILECORRUPTED)
            ELSE IF ~SafeMul32(f.colorMapLength, bpe)
            THEN TgaFail(ctx, CKBITMAPERROR_FILECORRUPTED)
            ELSE IF ~TgaReadOk(pos, cmSize, TgaFileSize(f))
            THEN TgaFail(ctx, CKBITMAPERROR_READERROR)
            ELSE [ctx EXCEPT !.colorMapEntries = f.colorMapLength,
                             !.colorMapBytesPerEntry = bpe,
                             !.colorMap = SubSeq(f.body, pos - TgaHeaderSize + 1,
                                                 pos - TgaHeaderSize + cmSize),
                             !.pos = pos + cmSize]
    ELSE [ctx EXCEPT !.pos = pos]

\* Variant of the switch below with no default case.
TgaAnyType(imageType) == TRUE

\* The cases of the switch on imageType; every other value is the default case.
TgaKnownType(imageType) ==
    imageType \in {TGA_TYPE_COLORMAP, TGA_TYPE_TRUECOLOR, TGA_TYPE_GRAYSCALE,
                   TGA_TYPE_RLE_COLORMAP, TGA_TYPE_RLE_TRUECOLOR, TGA_TYPE_RLE_GRAYSCALE}

ParseTgaHeader(f, kind) ==
    LET ctx == TgaContext(f)
    IN  IF ~TgaReadOk(0, TgaHeaderSize, TgaFileSize(f)) \/ f.hdrBytes < TgaHeaderSize
        THEN TgaFail(ctx, CKBITMAPERROR_READERROR)
        ELSE IF ~TgaKnownType(f.imageType)
        THEN TgaFail(ctx, CKBITMAPERROR_UNSUPPORTEDFILE)
        ELSE IF ctx.width = 0 \/ ctx.height = 0
        THEN TgaFail(ctx, CKBITMAPERROR_FILECORRUPTED)
        ELSE IF ctx.interleaveMode = 3 THEN TgaFail(ctx, CKBITMAPERROR_UNSUPPORTEDFILE)
        ELSE IF f.idLength > 0 /\ ~TgaSkipOk(kind, TgaHeaderSize, f.idLength, TgaFileSize(f))
        THEN TgaFail(ctx, CKBITMAPERROR_READERROR)
        ELSE LET cm == TgaReadColorMap(ctx, f, TgaHeaderSize + f.idLength)
             IN  IF cm.result # CK_OK THEN cm ELSE TgaValidateDepths(cm, f)

-----------------------------------------------------------------------------
(* TGA_Read.                                                               *)

\* The destination cell of file pixel number n (file order, row by row).
TgaDstCell(ctx, n) ==
    LET fx == n % ctx.width
        fy == n \div ctx.width
    IN  MapY(fy, ctx.height, ctx.isTopDown, ctx.interleaveMode) * ctx.width
        + MapX(fx, ctx.width, ctx.isRightToLeft)

TgaPut(ctx, st, n, pixel) ==
    LET k == TgaDstCell(ctx, n)
    IN  [st EXCEPT !.buf = Store(st.buf, k, pixel),
                   !.oobWrite = st.oobWrite \/ k < 0 \/ k >= Len(st.buf)]

\* The body of a run packet: the same pixel, count times, clipped to the image.
RECURSIVE TgaRunFill(_, _, _, _, _)
TgaRunFill(ctx, st, pixel, i, count) ==
    IF i < count /\ st.pixelCount < ctx.width * ctx.height
    THEN TgaRunFill(ctx, [TgaPut(ctx, st, st.pixelCount, pixel)
                            EXCEPT !.pixelCount = st.pixelCount + 1],
                    pixel, i + 1, count)
    ELSE st

\* The body of a raw packet: it stops at the first pixel the data cannot supply.
RECURSIVE TgaRawFill(_, _, _, _, _)
TgaRawFill(ctx, src, st, i, count) ==
    IF i < count /\ st.pixelCount < ctx.width * ctx.height
    THEN IF st.srcPos + ctx.srcBytesPerPixel > Len(src) THEN st
         ELSE TgaRawFill(ctx, src,
                         [TgaPut(ctx, st, st.pixelCount, DecodePixel(ctx, src, st.srcPos, 0))
                            EXCEPT !.pixelCount = st.pixelCount + 1,
                                   !.srcPos = st.srcPos + ctx.srcBytesPerPixel],
                         i + 1, count)
    ELSE st

\* One pass of the packet loop: the state after the packet at srcPos, and
\* whether the pass left the loop (a run packet whose pixel is cut short).
TgaRlePacket(ctx, src, st) ==
    LET packet == src[st.srcPos + 1]
        count == (packet % 128) + 1
        st1 == [st EXCEPT !.srcPos = st.srcPos + 1]
    IN  IF packet >= 128
        THEN IF st1.srcPos + ctx.srcBytesPerPixel > Len(src)
             THEN [st |-> st1, stop |-> TRUE]
             ELSE [st |-> TgaRunFill(ctx,
                              [st1 EXCEPT !.srcPos = st1.srcPos + ctx.srcBytesPerPixel],
                              DecodePixel(ctx, src, st1.srcPos, 0), 0, count),
                   stop |-> FALSE]
        ELSE [st |-> TgaRawFill(ctx, src, st1, 0, count), stop |-> FALSE]

\* The condition of the packet loop.
TgaRleMore(ctx, src, st) ==
    st.pixelCount < ctx.width * ctx.height /\ st.srcPos < Len(src)

\* The packet loop of the RLE branch.
RECURSIVE TgaRleLoop(_, _, _)
TgaRleLoop(ctx, src, st) ==
    IF TgaRleMore(ctx, src, st)
    THEN LET r == TgaRlePacket(ctx, src, st)
         IN  IF r.stop THEN r.st ELSE TgaRleLoop(ctx, src, r.st)
    ELSE st

\* The uncompressed branch: file pixel n is read at n * srcBytesPerPixel, whether
\* or not the data reach that far.
RECURSIVE TgaRawImage(_, _, _, _, _)
TgaRawImage(ctx, src, st, n, junk) ==
    IF n < ctx.width * ctx.height
    THEN TgaRawImage(ctx, src,
                     TgaPut(ctx, st, n, DecodePixel(ctx, src, n * ctx.srcBytesPerPixel, junk)),
                     n + 1, junk)
    ELSE st

\* A variant of the test below under which a short stream passes.
TgaRleAlwaysComplete(pixelCount, totalPixels) == TRUE

\* The test after the packet loop: every pixel of the image was produced.
TgaRleComplete(pixelCount, totalPixels) == pixelCount = totalPixels

\* The decoding state before the first pixel: the cursors at 0 and the
\* destination of total pixels filled with 0xFF.
TgaStart(total) ==
    [srcPos |-> 0, pixelCount |-> 0, buf |-> Filled(total, Opaque), oobWrite |-> FALSE]

\* TGA_Read on file f through a source of the given kind.  junk is what a read
\* outside the pixel data yields.
TGA_Read(f, kind, junk) ==
    LET ctx == ParseTgaHeader(f, kind)
    IN  IF ctx.result # CK_OK THEN Failure(ctx.result)
        ELSE
        LET srcPixels == BytesFrom(f.body, ctx.pos - TgaHeaderSize)
            fits == SafeMul32(ctx.width * 4, ctx.height)
        IN  IF ~fits THEN Failure(CKBITMAPERROR_FILECORRUPTED)
            ELSE
            LET total == ctx.width * ctx.height
                st0 == TgaStart(total)
                depth == IF OutputHasAlpha(ctx) THEN 32 ELSE 24
            IN  IF ctx.isRLE THEN
                    LET st == TgaRleLoop(ctx, srcPixels, st0)
                    IN  IF ~TgaRleComplete(st.pixelCount, total)
                        THEN FailureAfterAlloc(CKBITMAPERROR_FILECORRUPTED, total)
                        ELSE Outcome(CK_OK, ctx.width, ctx.height, st.buf, total, depth,
                                     st.oobWrite, FALSE, FALSE)
                ELSE
                    LET st == TgaRawImage(ctx, srcPixels, st0, 0, junk)
                    IN  Outcome(CK_OK, ctx.width, ctx.height, st.buf, total, depth,
                                st.oobWrite, total * ctx.srcBytesPerPixel > Len(srcPixels),
                                FALSE)

-----------------------------------------------------------------------------
(* TGA_Save.                                                               *)

TgaMaxPacket == 128

\* A variant of the operator below that reads the rows top to bottom.
TgaSrcPixelUnflipped(img, width, height, n) == img[n + 1]

\* Pixel number n of the image in file order (bottom row first), read from the
\* canonical buffer img of the given width and height.
TgaSrcPixel(img, width, height, n) ==
    img[(height - 1 - (n \div width)) * width + (n % width) + 1]

\* The first bpp bytes of two pixels agree.
SameBytes(p, q, bpp) == \A i \in 1 .. bpp : p[i] = q[i]

FirstBytes(p, bpp) == SubSeq(p, 1, bpp)

\* Length of the run of pixels equal to the one at start, counted from c, capped.
RECURSIVE TgaSameRun(_, _, _, _, _, _, _)
TgaSameRun(img, width, height, bpp, start, c, cap) ==
    IF c < cap /\ start + c < width * height
       /\ SameBytes(TgaSrcPixel(img, width, height, start + c),
                    TgaSrcPixel(img, width, height, start), bpp)
    THEN TgaSameRun(img, width, height, bpp, start, c + 1, cap)
    ELSE c

\* The literal-run search at runStart leaves its loop at rawCount pixels when
\* the packet holds cap pixels, when the image ends, or ahead of three equal
\* pixels in a row.
TgaRawStop(img, width, height, bpp, runStart, rawCount, cap) ==
    \/ ~(rawCount < cap /\ runStart + rawCount < width * height)
    \/ TgaSameRun(img, width, height, bpp, runStart + rawCount, 1, 3) >= 3

\* Variant of TgaRawRun whose literal runs stop at half the packet size.
TgaRawRunHalf(img, width, height, bpp, runStart, rawCount) ==
    CHOOSE c \in rawCount .. TgaMaxPacket \div 2 :
        /\ TgaRawStop(img, width, height, bpp, runStart, c, TgaMaxPacket \div 2)
        /\ \A d \in rawCount .. c - 1 :
              ~TgaRawStop(img, width, height, bpp, runStart, d, TgaMaxPacket \div 2)

\* Length of the literal run that starts at runStart, counted up from rawCount:
\* the first count at which the search leaves its loop.
TgaRawRun(img, width, height, bpp, runStart, rawCount) ==
    CHOOSE c \in rawCount .. TgaMaxPacket :
        /\ TgaRawStop(img, width, height, bpp, runStart, c, TgaMaxPacket)
        /\ \A d \in rawCount .. c - 1 :
              ~TgaRawStop(img, width, height, bpp, runStart, d, TgaMaxPacket)

\* The bytes of pixels runStart .. runStart + n - 1, bpp bytes of each.
TgaLiteral(img, width, height, bpp, runStart, n) ==
    [i \in 1 .. n * bpp |->
        TgaSrcPixel(img, width, height, runStart + (i - 1) \div bpp)[((i - 1) % bpp) + 1]]

\* The pixels one pass of the packet loop of TGA_Save moves pixelIndex by: the
\* run found there when it has three pixels or more, else the literal stretch.
TgaEncodeAdvance(img, width, height, bpp, pixelIndex) ==
    LET rleCount == TgaSameRun(img, width, height, bpp, pixelIndex, 1, TgaMaxPacket)
    IN  IF rleCount >= 3 THEN rleCount
        ELSE TgaRawRun(img, width, height, bpp, pixelIndex, 1)

RECURSIVE TgaEncodeRle(_, _, _, _, _)
TgaEncodeRle(img, width, height, bpp, pixelIndex) ==
    IF pixelIndex < width * height
    THEN LET rleCount == TgaSameRun(img, width, height, bpp, pixelIndex, 1, TgaMaxPacket)
             rawCount == IF rleCount < 3
                         THEN TgaRawRun(img, width, height, bpp, pixelIndex, 1) ELSE 1
         IN  (IF rleCount >= 3
              THEN <<128 + (rleCount - 1)>>
                   \o FirstBytes(TgaSrcPixel(img, width, height, pixelIndex), bpp)
              ELSE <<rawCount - 1>>
                   \o TgaLiteral(img, width, height, bpp, pixelIndex, rawCount))
             \o TgaEncodeRle(img, width, height, bpp,
                             pixelIndex + TgaEncodeAdvance(img, width, height, bpp,
                                                           pixelIndex))
    ELSE << >>

NoFile == [size |-> 0]

\* Variant of TgaSaveDepth that keeps the depth asked for.
TgaSaveDepthAsAsked(bitDepth) == bitDepth

\* The depth TGA_Save writes when asked for bitDepth.
TgaSaveDepth(bitDepth) == IF bitDepth # 24 /\ bitDepth # 32 THEN 24 ELSE bitDepth

\* TGA_Save of a properties object whose image is the canonical buffer of
\* outcome res.  size is the value returned; maxSize the bytes allocated.
TGA_Save(res, bitDepth, useRLE) ==
    IF Len(res.pixels) = 0 \/ res.width = 0 \/ res.height = 0 THEN NoFile
    ELSE
    LET depth == TgaSaveDepth(bitDepth)
        dstBpp == depth \div 8
        total == res.width * res.height
        body == IF useRLE THEN TgaEncodeRle(res.pixels, res.width, res.height, dstBpp, 0)
                ELSE TgaLiteral(res.pixels, res.width, res.height, dstBpp, 0, total)
        maxPixelDataSize == total * dstBpp + (IF useRLE THEN total \div 128 + 1 ELSE 0)
    IN  [ format |-> "tga",
          size |-> TgaHeaderSize + Len(body),
          maxSize |-> TgaHeaderSize + maxPixelDataSize,
          hdrBytes |-> TgaHeaderSize, idLength |-> 0, colorMapType |-> 0,
          imageType |-> IF useRLE THEN TGA_TYPE_RLE_TRUECOLOR ELSE TGA_TYPE_TRUECOLOR,
          colorMapOrigin |-> 0, colorMapLength |-> 0, colorMapDepth |-> 0,
          width |-> res.width % 65536, height |-> res.height % 65536,
          pixelDepth |-> depth, imageDescriptor |-> IF depth = 32 THEN 8 ELSE 0,
          body |-> body ]

-----------------------------------------------------------------------------
(* BMP files.  A file is its parsed header fields, the number of header     *)
(* bytes it holds (hdrBytes) and the bytes that follow the info header      *)
(* (body: palette or masks, gap, pixel data).  A bit mask is kept as the    *)
(* position of its lowest bit and its number of bits (bits = 0: mask 0).    *)

BI_RGB == 0
BI_RLE8 == 1
BI_RLE4 == 2
BI_BITFIELDS == 3
BI_JPEG == 4
BI_PNG == 5
BI_ALPHABITFIELDS == 6

BmpFileHeaderSize == 14
BmpInfoHeaderSize == 40
BmpMagic == 19778

NoMask == [shift |-> 0, bits |-> 0]

BmpFileSize(f) == f.hdrBytes + Len(f.body)

\* BmpMemorySource::Read and BmpFileSource::Read report the same success.
BmpReadOk(pos, n, size) == pos + n <= size

\* BmpMemorySource::Seek refuses an offset past the end and stays where it is;
\* BmpFileSource::Seek is an fseek, which goes there.
BmpSeek(kind, pos, offset, size) ==
    IF kind = "memory" /\ offset > size THEN pos ELSE offset

\* ExtractMaskedComponent on a pixel given as its low and high 16 bits.
ExtractMaskedComponent(lo, hi, mask) ==
    IF mask.bits = 0 THEN 0
    ELSE LET m == 2 ^ mask.bits - 1
             shifted == IF mask.shift >= 16
                        THEN (hi \div 2 ^ (mask.shift - 16)) % (m + 1)
                        ELSE ((lo \div 2 ^ mask.shift)
                              + (hi % (m + 1)) * 2 ^ (16 - mask.shift)) % (m + 1)
         IN  ((shifted * 255) \div m) % 256

\* A variant of the lookup below without the clamp: an index outside the palette
\* reads whatever lies behind it.
SetBGRAFromPaletteUnclamped(idx, palette, is3Byte, entries) ==
    LET stride == IF is3Byte THEN 3 ELSE 4
    IN  <<ByteAt(palette, idx * stride, 205), ByteAt(palette, idx * stride + 1, 205),
          ByteAt(palette, idx * stride + 2, 205), 255>>

\* SetBGRAFromPalette: an index outside the palette reads entry 0.
SetBGRAFromPalette(idx, palette, is3Byte, entries) ==
    LET i == IF idx >= entries THEN 0 ELSE idx
        stride == IF is3Byte THEN 3 ELSE 4
    IN  <<palette[i * stride + 1], palette[i * stride + 2], palette[i * stride + 3], 255>>

\* Mask stored as four little-endian bytes after a 40-byte header.
RECURSIVE LowBit(_)
LowBit(b) == IF b % 2 = 1 THEN 0 ELSE 1 + LowBit(b \div 2)

RECURSIVE BitLen(_)
BitLen(b) == IF b = 0 THEN 0 ELSE 1 + BitLen(b \div 2)

MaskFromBytes(q) ==
    IF \A i \in 1 .. 4 : q[i] = 0 THEN NoMask
    ELSE LET first == CHOOSE i \in 1 .. 4 : q[i] # 0 /\ \A j \in 1 .. i - 1 : q[j] = 0
             last == CHOOSE i \in 1 .. 4 : q[i] # 0 /\ \A j \in i + 1 .. 4 : q[j] = 0
             shift == 8 * (first - 1) + LowBit(q[first])
         IN  [shift |-> shift, bits |-> 8 * (last - 1) + BitLen(q[last]) - shift]

BmpHeader(f) ==
    [ width |-> 0, height |-> 0, bitCount |-> 0, planes |-> 0, compression |-> BI_RGB,
      colorsUsed |-> 0, headerSize |-> 0, topDown |-> FALSE,
      redMask |-> NoMask, greenMask |-> NoMask, blueMask |-> NoMask, alphaMask |-> NoMask,
      pixelDataOffset |-> f.bfOffBits, pos |-> 0, result |-> CK_OK ]

BmpFail(hdr, code) == [hdr EXCEPT !.result = code]

\* Variant of BmpValidate that reports a compression that does not go with the
\* bit depth as a corrupted file.
BmpValidateCorrupted(hdr) ==
    IF hdr.width = 0 \/ hdr.height = 0 THEN BmpFail(hdr, CKBITMAPERROR_FILECORRUPTED)
    ELSE IF hdr.planes # 1 THEN BmpFail(hdr, CKBITMAPERROR_FILECORRUPTED)
    ELSE IF hdr.bitCount \notin {1, 4, 8, 16, 24, 32}
    THEN BmpFail(hdr, CKBITMAPERROR_UNSUPPORTEDFILE)
    ELSE IF hdr.compression = BI_RLE8 /\ hdr.bitCount # 8
    THEN BmpFail(hdr, CKBITMAPERROR_FILECORRUPTED)
    ELSE IF hdr.compression = BI_RLE4 /\ hdr.bitCount # 4
    THEN BmpFail(hdr, CKBITMAPERROR_FILECORRUPTED)
    ELSE hdr

\* The validation at the end of ParseBmpHeader.
BmpValidate(hdr) ==
    IF hdr.width = 0 \/ hdr.height = 0 THEN BmpFail(hdr, CKBITMAPERROR_FILECORRUPTED)
    ELSE IF hdr.planes # 1 THEN BmpFail(hdr, CKBITMAPERROR_FILECORRUPTED)
    ELSE IF hdr.bitCount \notin {1, 4, 8, 16, 24, 32}
    THEN BmpFail(hdr, CKBITMAPERROR_UNSUPPORTEDFILE)
    ELSE IF hdr.compression = BI_RLE8 /\ hdr.bitCount # 8
    THEN BmpFail(hdr, CKBITMAPERROR_UNSUPPORTEDFILE)
    ELSE IF hdr.compression = BI_RLE4 /\ hdr.bitCount # 4
    THEN BmpFail(hdr, CKBITMAPERROR_UNSUPPORTEDFILE)
    ELSE hdr

\* The mask fields of a header of 52 bytes or more are fetched with ReadAt, whose
\* failure is ignored and leaves the mask 0.
BmpMaskAt(f, k, mask) ==
    IF BmpReadOk(BmpFileHeaderSize + BmpInfoHeaderSize + 4 * k, 4, BmpFileSize(f))
    THEN mask ELSE NoMask

ParseBmpHeader(f, kind) ==
    LET hdr == BmpHeader(f)
        size == BmpFileSize(f)
    IN  IF ~BmpReadOk(0, BmpFileHeaderSize, size) THEN BmpFail(hdr, CKBITMAPERROR_READERROR)
        ELSE IF f.bfType # BmpMagic THEN BmpFail(hdr, CKBITMAPERROR_UNSUPPORTEDFILE)
        ELSE IF ~BmpReadOk(BmpFileHeaderSize, 4, size)
        THEN BmpFail(hdr, CKBITMAPERROR_READERROR)
        ELSE IF f.headerSize = 12 THEN
            IF ~BmpReadOk(BmpFileHeaderSize + 4, 8, size)
            THEN BmpFail(hdr, CKBITMAPERROR_READERROR)
            ELSE BmpValidate([hdr EXCEPT !.headerSize = 12,
                                         !.width = f.width % 65536,
                                         !.height = f.height % 65536,
                                         !.planes = f.planes, !.bitCount = f.bitCount,
                                         !.pos = BmpFileHeaderSize + 12])
        ELSE IF f.headerSize >= BmpInfoHeaderSize THEN
            IF ~BmpReadOk(BmpFileHeaderSize + 4, BmpInfoHeaderSize - 4, size)
            THEN BmpFail(hdr, CKBITMAPERROR_READERROR)
            ELSE
            LET after == BmpFileHeaderSize + BmpInfoHeaderSize
                pos == IF f.headerSize > BmpInfoHeaderSize
                       THEN IF kind = "memory" /\ BmpFileHeaderSize + f.headerSize > size
                            THEN after ELSE BmpFileHeaderSize + f.headerSize
                       ELSE after
                inHeader == f.compression \in {BI_BITFIELDS, BI_ALPHABITFIELDS}
                            /\ f.headerSize >= 52
                h1 == [hdr EXCEPT !.headerSize = f.headerSize, !.width = f.width,
                                  !.height = f.height, !.topDown = f.topDown,
                                  !.planes = f.planes, !.bitCount = f.bitCount,
                                  !.compression = f.compression,
                                  !.colorsUsed = f.clrUsed, !.pos = pos]
            IN  IF f.compression \in {BI_JPEG, BI_PNG}
                THEN BmpFail(h1, CKBITMAPERROR_UNSUPPORTEDFILE)
                ELSE IF f.compression \notin {BI_RGB, BI_RLE8, BI_RLE4, BI_BITFIELDS,
                                              BI_ALPHABITFIELDS}
                THEN BmpFail(h1, CKBITMAPERROR_UNSUPPORTEDFILE)
                ELSE BmpValidate(
                       IF inHeader
                       THEN [h1 EXCEPT !.redMask = BmpMaskAt(f, 0, f.redMask),
                                       !.greenMask = BmpMaskAt(f, 1, f.greenMask),
                                       !.blueMask = BmpMaskAt(f, 2, f.blueMask),
                                       !.alphaMask = IF f.headerSize >= 56
                                                     THEN BmpMaskAt(f, 3, f.alphaMask)
                                                     ELSE NoMask]
                       ELSE h1)
        ELSE BmpFail([hdr EXCEPT !.headerSize = f.headerSize], CKBITMAPERROR_UNSUPPORTEDFILE)

-----------------------------------------------------------------------------
(* BMP RLE decoding.  The cursor state st holds srcPos, x, y, the           *)
(* destination buf and the flags of writes and reads outside their buffers. *)
(* ub.junk is what a read outside the payload yields; ub.swapArgs tells     *)
(* whether the build evaluates the second argument of Delta first.          *)

\* RLEContext: ctx.stride is dstStride in pixels, ctx.alloc the pixels allocated.
RLEContext(src, stride, alloc, w, h, td, pal, is3, pe) ==
    [ src |-> src, srcSize |-> Len(src), dstStride |-> stride, alloc |-> alloc,
      width |-> w, height |-> h, topDown |-> td,
      palette |-> pal, is3BytePalette |-> is3, paletteEntries |-> pe ]

RLEStart(ctx, buf) ==
    [ srcPos |-> 0, x |-> 0, y |-> IF ctx.topDown THEN 0 ELSE ctx.height - 1,
      buf |-> buf, oobWrite |-> FALSE, oobRead |-> FALSE ]

\* Row() is not NULL: y, an unsigned number, is below height (a negative y here
\* is one that wrapped round).
RowValid(ctx, st) == st.y >= 0 /\ st.y < ctx.height

\* Variant of NextLine that also moves the cursor back over the escape.
NextLineRewind(ctx, st) ==
    [st EXCEPT !.x = 0,
               !.y = IF ctx.topDown THEN st.y + 1
                     ELSE IF st.y > 0 THEN st.y - 1 ELSE ctx.height,
               !.srcPos = IF st.srcPos >= 2 THEN st.srcPos - 2 ELSE 0]

NextLineStuck(ctx, st) == [st EXCEPT !.x = 0]

NextLine(ctx, st) ==
    [st EXCEPT !.x = 0,
               !.y = IF ctx.topDown THEN st.y + 1
                     ELSE IF st.y > 0 THEN st.y - 1 ELSE ctx.height]

Delta(ctx, st, dx, dy) ==
    [st EXCEPT !.x = st.x + dx,
               !.y = IF ctx.topDown THEN st.y + dy ELSE st.y - dy]

HasMore(ctx, st) == st.srcPos < ctx.srcSize /\ RowValid(ctx, st)

\* ReadByte: the byte read (0 past the end) and the cursor after it.
ReadByteValue(ctx, st) == IF st.srcPos < ctx.srcSize THEN ctx.src[st.srcPos + 1] ELSE 0

ReadByteNext(ctx, st) ==
    IF st.srcPos < ctx.srcSize THEN [st EXCEPT !.srcPos = st.srcPos + 1] ELSE st

\* The write of SetPixel without its test of x against width.
SetPixelUnclipped(ctx, st, idx) ==
    IF RowValid(ctx, st)
    THEN LET k == ((st.y * ctx.dstStride) % Pow30) + st.x
         IN  [st EXCEPT !.buf = Store(st.buf, k,
                                      SetBGRAFromPalette(idx, ctx.palette, ctx.is3BytePalette,
                                                         ctx.paletteEntries)),
                        !.oobWrite = st.oobWrite \/ k >= ctx.alloc,
                        !.x = st.x + 1]
    ELSE st

SetPixel(ctx, st, idx) ==
    IF RowValid(ctx, st) /\ st.x < ctx.width THEN SetPixelUnclipped(ctx, st, idx) ELSE st

\* An encoded run: count pixels of the indices idx1, idx2, idx1, ...
RECURSIVE RleRun(_, _, _, _, _, _)
RleRun(ctx, st, i, count, idx1, idx2) ==
    IF i < count
    THEN RleRun(ctx, SetPixel(ctx, st, IF i % 2 = 1 THEN idx2 ELSE idx1),
                i + 1, count, idx1, idx2)
    ELSE st

\* The absolute run of RLE8: count indices, one ReadByte each.
RECURSIVE Rle8Absolute(_, _, _, _)
Rle8Absolute(ctx, st, i, count) ==
    IF i < count
    THEN Rle8Absolute(ctx, SetPixel(ctx, ReadByteNext(ctx, st), ReadByteValue(ctx, st)),
                      i + 1, count)
    ELSE st

\* The absolute run of RLE4: two indices a byte, read without a bound test.
RECURSIVE Rle4Absolute(_, _, _, _, _)
Rle4Absolute(ctx, st, i, count, ub) ==
    IF i < count
    THEN LET byte == ByteAt(ctx.src, st.srcPos, ub.junk)
             idx == IF i % 2 = 0 THEN byte \div 16 ELSE byte % 16
             st1 == [st EXCEPT !.oobRead = st.oobRead \/ st.srcPos >= ctx.srcSize,
                               !.srcPos = IF i % 2 = 0 THEN st.srcPos ELSE st.srcPos + 1]
         IN  Rle4Absolute(ctx, SetPixel(ctx, st1, idx), i + 1, count, ub)
    ELSE st

\* The (0,2) escape: two ReadByte calls as the arguments of Delta, in the order
\* the build evaluates them.
RleDelta(ctx, st, ub) ==
    LET a == ReadByteValue(ctx, st)
        st1 == ReadByteNext(ctx, st)
        b == ReadByteValue(ctx, st1)
        st2 == ReadByteNext(ctx, st1)
    IN  IF ub.swapArgs THEN Delta(ctx, st2, b, a) ELSE Delta(ctx, st2, a, b)

\* One pass of the loop of DecodeRLE8: the state after the opcode at srcPos,
\* and whether the pass returned (the end-of-bitmap escape).
Rle8Opcode(ctx, st, ub) ==
    LET first == ReadByteValue(ctx, st)
        st1 == ReadByteNext(ctx, st)
        second == ReadByteValue(ctx, st1)
        st2 == ReadByteNext(ctx, st1)
    IN  IF first = 0
        THEN IF second = 0 THEN [st |-> NextLine(ctx, st2), stop |-> FALSE]
             ELSE IF second = 1 THEN [st |-> st2, stop |-> TRUE]
             ELSE IF second = 2 THEN [st |-> RleDelta(ctx, st2, ub), stop |-> FALSE]
             ELSE LET st3 == Rle8Absolute(ctx, st2, 0, second)
                  IN  [st |-> [st3 EXCEPT !.srcPos = st3.srcPos + (second % 2)],
                       stop |-> FALSE]
        ELSE [st |-> RleRun(ctx, st2, 0, first, second, second), stop |-> FALSE]

RECURSIVE DecodeRLE8(_, _, _)
DecodeRLE8(ctx, st, ub) ==
    IF HasMore(ctx, st)
    THEN LET r == Rle8Opcode(ctx, st, ub)
         IN  IF r.stop THEN r.st ELSE DecodeRLE8(ctx, r.st, ub)
    ELSE st

\* One pass of the loop of DecodeRLE4.
Rle4Opcode(ctx, st, ub) ==
    LET first == ReadByteValue(ctx, st)
        st1 == ReadByteNext(ctx, st)
        second == ReadByteValue(ctx, st1)
        st2 == ReadByteNext(ctx, st1)
    IN  IF first = 0
        THEN IF second = 0 THEN [st |-> NextLine(ctx, st2), stop |-> FALSE]
             ELSE IF second = 1 THEN [st |-> st2, stop |-> TRUE]
             ELSE IF second = 2 THEN [st |-> RleDelta(ctx, st2, ub), stop |-> FALSE]
             ELSE LET st3 == Rle4Absolute(ctx, st2, 0, second, ub)
                  IN  [st |-> [st3 EXCEPT !.srcPos = st3.srcPos + (second % 2)
                                                     + (((second + 1) \div 2) % 2)],
                       stop |-> FALSE]
        ELSE [st |-> RleRun(ctx, st2, 0, first, second \div 16, second % 16),
              stop |-> FALSE]

RECURSIVE DecodeRLE4(_, _, _)
DecodeRLE4(ctx, st, ub) ==
    IF HasMore(ctx, st)
    THEN LET r == Rle4Opcode(ctx, st, ub)
         IN  IF r.stop THEN r.st ELSE DecodeRLE4(ctx, r.st, ub)
    ELSE st

-----------------------------------------------------------------------------
(* BMP_Read.                                                               *)

\* The bytes of file f at positions pos .. pos + n - 1 that exist.
BmpBytes(f, pos, n) ==
    LET from == pos - f.hdrBytes
        to == Min(from + n, Len(f.body))
    IN  IF from >= to \/ from < 0 THEN << >> ELSE SubSeq(f.body, from + 1, to)

\* srcStride in 4-byte units: ((width * bitCount + 31) / 32), in 64 bits.
BmpStrideDwords(width, bitCount) ==
    CASE bitCount = 32 -> width
      [] bitCount = 24 -> width - (width \div 4)
      [] OTHER -> ((width - 1) \div (32 \div bitCount)) + 1

\* One pixel of an uncompressed row that starts at byte row of the payload.
BmpRowPixel(hdr, palette, entries, src, row, x, junk) ==
    LET B(i) == ByteAt(src, row + i, junk)
        is3 == hdr.headerSize = 12
        useMasks == hdr.compression \in {BI_BITFIELDS, BI_ALPHABITFIELDS}
                    /\ hdr.redMask.bits # 0 /\ hdr.greenMask.bits # 0
                    /\ hdr.blueMask.bits # 0
        Masked(lo, hi) ==
            << ExtractMaskedComponent(lo, hi, hdr.blueMask),
               ExtractMaskedComponent(lo, hi, hdr.greenMask),
               ExtractMaskedComponent(lo, hi, hdr.redMask),
               IF hdr.alphaMask.bits # 0
               THEN ExtractMaskedComponent(lo, hi, hdr.alphaMask) ELSE 255 >>
    IN  CASE hdr.bitCount = 1 ->
               SetBGRAFromPalette((B(x \div 8) \div 2 ^ (7 - (x % 8))) % 2,
                                  palette, is3, entries)
          [] hdr.bitCount = 4 ->
               SetBGRAFromPalette(IF x % 2 = 1 THEN B(x \div 2) % 16 ELSE B(x \div 2) \div 16,
                                  palette, is3, entries)
          [] hdr.bitCount = 8 -> SetBGRAFromPalette(B(x), palette, is3, entries)
          [] hdr.bitCount = 16 ->
               LET pixel == B(2 * x) + 256 * B(2 * x + 1)
               IN  IF useMasks THEN Masked(pixel, 0)
                   ELSE << ((pixel % 32) * 255) \div 31,
                           (((pixel \div 32) % 32) * 255) \div 31,
                           (((pixel \div 1024) % 32) * 255) \div 31, 255 >>
          [] hdr.bitCount = 24 -> <<B(3 * x), B(3 * x + 1), B(3 * x + 2), 255>>
          [] OTHER ->
               IF useMasks
               THEN Masked(B(4 * x) + 256 * B(4 * x + 1), B(4 * x + 2) + 256 * B(4 * x + 3))
               ELSE <<B(4 * x), B(4 * x + 1), B(4 * x + 2), 255>>

\* Output row y is decoded from source scanline srcY.
BmpSrcYSame(hdr, y) == y

BmpSrcY(hdr, y) == IF hdr.topDown THEN y ELSE hdr.height - 1 - y

\* The row loop of the uncompressed branch, for widths whose stride did not wrap.
BmpDecodeRows(hdr, palette, entries, src, srcStride, junk) ==
    [k \in 1 .. hdr.width * hdr.height |->
        BmpRowPixel(hdr, palette, entries, src,
                    BmpSrcY(hdr, (k - 1) \div hdr.width) * srcStride,
                    (k - 1) % hdr.width, junk)]

\* The part of BMP_Read after the palette: pos is the source position there.
\* The RLEContext BMP_Read builds over the rest of the file.
BmpRleContext(f, kind, hdr, palette, entries, pos) ==
    LET size == BmpFileSize(f)
        pos2 == BmpSeek(kind, pos, hdr.pixelDataOffset, size)
        pixelDataSize == size - pos2
        avail == IF kind = "memory" /\ ~BmpReadOk(pos2, pixelDataSize, size) THEN << >>
                 ELSE BmpBytes(f, pos2, pixelDataSize)
        dstStride == hdr.width % Pow30
    IN  RLEContext(avail, dstStride, dstStride * hdr.height, hdr.width, hdr.height,
                   hdr.topDown, palette, hdr.headerSize = 12, entries)

BmpReadPixels(f, kind, ub, hdr, palette, entries, pos) ==
    LET size == BmpFileSize(f)
        pos2 == BmpSeek(kind, pos, hdr.pixelDataOffset, size)
        strideDw == BmpStrideDwords(hdr.width, hdr.bitCount)
        isRle == hdr.compression \in {BI_RLE8, BI_RLE4}
        pixelDataSize == IF isRle THEN size - pos2 ELSE strideDw * 4 * hdr.height
        avail == IF kind = "memory" /\ ~BmpReadOk(pos2, pixelDataSize, size) THEN << >>
                 ELSE BmpBytes(f, pos2, pixelDataSize)
        dstStride == hdr.width % Pow30
        alloc == dstStride * hdr.height
        is3 == hdr.headerSize = 12
    IN  IF strideDw >= Pow30 THEN Failure(CKBITMAPERROR_FILECORRUPTED)
        ELSE IF ~isRle /\ strideDw > (Pow30 - 1) \div hdr.height
        THEN Failure(CKBITMAPERROR_FILECORRUPTED)
        ELSE IF dstStride # 0 /\ hdr.height > (Pow30 - 1) \div dstStride
        THEN Failure(CKBITMAPERROR_FILECORRUPTED)
        ELSE IF isRle /\ pixelDataSize < 0
        THEN \* Size() - Tell() wrapped: the payload array cannot be read at all.
             Outcome("Crash", 0, 0, NoPixels, alloc, 0, FALSE, TRUE, FALSE)
        ELSE IF isRle THEN
            LET ctx == BmpRleContext(f, kind, hdr, palette, entries, pos)
                st0 == RLEStart(ctx, Filled(alloc, Opaque))
                st == IF hdr.compression = BI_RLE8 THEN DecodeRLE8(ctx, st0, ub)
                      ELSE DecodeRLE4(ctx, st0, ub)
            IN  Outcome(CK_OK, hdr.width, hdr.height, st.buf, alloc, 0,
                        st.oobWrite, st.oobRead, FALSE)
        ELSE IF hdr.width >= Pow30
        THEN \* every row is longer than the whole allocation
             Outcome(CK_OK, hdr.width, hdr.height, Filled(alloc, Opaque), alloc, 0,
                     TRUE, FALSE, Len(avail) < pixelDataSize)
        ELSE Outcome(CK_OK, hdr.width, hdr.height,
                     BmpDecodeRows(hdr, palette, entries, avail, strideDw * 4, ub.junk),
                     alloc, 0, FALSE, FALSE,
                     (hdr.height - 1) * strideDw * 4
                       + ((hdr.width * hdr.bitCount + 7) \div 8) > Len(avail))

\* The colour table or the channel masks that follow the info header: the
\* number of palette entries, the bytes read, and the header with the masks
\* taken from them.
BmpPalette(f, hdr) ==
    LET is3 == hdr.headerSize = 12
        maxColors == 2 ^ hdr.bitCount
        entries == IF hdr.bitCount <= 8
                   THEN IF hdr.colorsUsed # 0 THEN hdr.colorsUsed ELSE maxColors
                   ELSE 0
        masksFollow == hdr.compression \in {BI_BITFIELDS, BI_ALPHABITFIELDS}
                       /\ hdr.headerSize < 52
        paletteSize == IF hdr.bitCount <= 8 THEN entries * (IF is3 THEN 3 ELSE 4)
                       ELSE IF masksFollow
                       THEN IF hdr.compression = BI_ALPHABITFIELDS THEN 16 ELSE 12
                       ELSE 0
        palette == BmpBytes(f, hdr.pos, paletteSize)
        Quad(k) == SubSeq(palette, 4 * k + 1, 4 * k + 4)
    IN  [ entries |-> entries, paletteSize |-> paletteSize, palette |-> palette,
          hdr2 |-> IF paletteSize > 0 /\ masksFollow /\ hdr.bitCount > 8
                   THEN [hdr EXCEPT !.redMask = MaskFromBytes(Quad(0)),
                                    !.greenMask = MaskFromBytes(Quad(1)),
                                    !.blueMask = MaskFromBytes(Quad(2)),
                                    !.alphaMask = IF paletteSize >= 16
                                                  THEN MaskFromBytes(Quad(3)) ELSE NoMask]
                   ELSE hdr ]

BMP_Read(f, kind, ub) ==
    LET hdr == ParseBmpHeader(f, kind)
        size == BmpFileSize(f)
        maxColors == 2 ^ hdr.bitCount
        pal == BmpPalette(f, hdr)
    IN  IF hdr.result # CK_OK THEN Failure(hdr.result)
        ELSE IF hdr.bitCount <= 8 /\ (pal.entries = 0 \/ pal.entries > maxColors)
        THEN Failure(CKBITMAPERROR_FILECORRUPTED)
        ELSE IF pal.paletteSize > 0 /\ ~BmpReadOk(hdr.pos, pal.paletteSize, size)
        THEN Failure(CKBITMAPERROR_READERROR)
        ELSE IF hdr.pixelDataOffset < hdr.pos + pal.paletteSize
        THEN Failure(CKBITMAPERROR_FILECORRUPTED)
        ELSE BmpReadPixels(f, kind, ub, pal.hdr2, pal.palette, pal.entries,
                           hdr.pos + pal.paletteSize)

-----------------------------------------------------------------------------
(* BMP_Save.                                                               *)

ToGray(b, g, r) == ((r * 299 + g * 587 + b * 114) \div 1000) % 256

\* RLE8::EncodeRow on the row of gray values row, from column x (0-based).
RECURSIVE Rle8RunLen(_, _, _)
Rle8RunLen(row, x, runLen) ==
    IF x + runLen < Len(row) /\ runLen < 255 /\ row[x + runLen + 1] = row[x + 1]
    THEN Rle8RunLen(row, x, runLen + 1)
    ELSE runLen

RECURSIVE Rle8LitLen(_, _, _)
Rle8LitLen(row, x, litLen) ==
    IF x + litLen < Len(row) /\ litLen < 255
    THEN IF x + litLen + 1 < Len(row) /\ row[x + litLen + 1] = row[x + litLen + 2]
         THEN litLen
         ELSE Rle8LitLen(row, x, litLen + 1)
    ELSE litLen

\* Variant of EmitAbsolute that never pads an absolute run to an even length.
EmitAbsoluteUnpadded(values) == <<0, Len(values) % 256>> \o values

EmitAbsolute(values) ==
    <<0, Len(values) % 256>> \o values \o (IF Len(values) % 2 = 1 THEN <<0>> ELSE << >>)

\* The columns one pass of the loop of EncodeRow moves x by: the run found at
\* x, or the literal stretch when there is no run.
EncodeRowAdvance(row, x) ==
    LET runLen == Rle8RunLen(row, x, 1)
    IN  IF runLen >= 2 THEN runLen ELSE Rle8LitLen(row, x, 1)

RECURSIVE EncodeRow(_, _)
EncodeRow(row, x) ==
    IF x < Len(row)
    THEN LET runLen == Rle8RunLen(row, x, 1)
             litLen == Rle8LitLen(row, x, 1)
         IN  (IF runLen >= 2
              THEN <<runLen, row[x + 1]>>
              ELSE IF litLen >= 3
              THEN EmitAbsolute(SubSeq(row, x + 1, x + litLen))
              ELSE Flatten([i \in 1 .. litLen |-> <<1, row[x + i]>>]))
             \o EncodeRow(row, x + EncodeRowAdvance(row, x))
    ELSE << >>

\* The gray palette BMP_Save writes for 8-bit output.
BmpGrayPalette == [k \in 1 .. 1024 |-> IF k % 4 = 0 THEN 0 ELSE (k - 1) \div 4]

\* Variant of BmpSaveRow that writes the rows top row first.
BmpSaveRowTopFirst(img, width, height, y, depth, junk) ==
    LET P(x) == img[y * width + x]
        stride == ((width * depth + 31) \div 32) * 4
        used == (width * depth) \div 8
    IN  Flatten([x \in 1 .. width |->
                   CASE depth = 8 -> <<ToGray(P(x)[1], P(x)[2], P(x)[3])>>
                     [] depth = 24 -> SubSeq(P(x), 1, 3)
                     [] OTHER -> P(x)])
        \o [i \in 1 .. stride - used |-> junk]

\* Row y of the saved file (bottom row first) of the canonical buffer img.
BmpSaveRow(img, width, height, y, depth, junk) ==
    LET P(x) == img[(height - 1 - y) * width + x]
        stride == ((width * depth + 31) \div 32) * 4
        used == (width * depth) \div 8
    IN  Flatten([x \in 1 .. width |->
                   CASE depth = 8 -> <<ToGray(P(x)[1], P(x)[2], P(x)[3])>>
                     [] depth = 24 -> SubSeq(P(x), 1, 3)
                     [] OTHER -> P(x)])
        \o [i \in 1 .. stride - used |-> junk]

BmpGrayRow(img, width, height, y) ==
    [x \in 1 .. width |->
        LET p == img[(height - 1 - y) * width + x] IN ToGray(p[1], p[2], p[3])]

\* The depth BMP_Save writes when asked for bitDepth (9 stands for 8-bit RLE8).
BmpSaveDepth(bitDepth) == IF bitDepth \notin {8, 9, 24, 32} THEN 24 ELSE bitDepth

\* BMP_Save of the canonical buffer of outcome res; junk fills the row padding,
\* which is allocated and never written.
BMP_Save(res, bitDepth, junk) ==
    IF Len(res.pixels) = 0 \/ res.width = 0 \/ res.height = 0 THEN NoFile
    ELSE
    LET depth == BmpSaveDepth(bitDepth)
        useRle8 == depth = 9
        headerBitDepth == IF useRle8 THEN 8 ELSE depth
        palette == IF headerBitDepth = 8 THEN BmpGrayPalette ELSE << >>
        headerSize == BmpFileHeaderSize + BmpInfoHeaderSize + Len(palette)
        data == IF useRle8
                THEN Flatten([y \in 1 .. res.height |->
                                EncodeRow(BmpGrayRow(res.pixels, res.width, res.height, y - 1), 0)
                                \o <<0, 0>>]) \o <<0, 1>>
                ELSE Flatten([y \in 1 .. res.height |->
                                BmpSaveRow(res.pixels, res.width, res.height, y - 1,
                                           headerBitDepth, junk)])
    IN  [ format |-> "bmp", size |-> headerSize + Len(data),
          hdrBytes |-> BmpFileHeaderSize + BmpInfoHeaderSize,
          bfType |-> BmpMagic, bfOffBits |-> headerSize,
          headerSize |-> BmpInfoHeaderSize, width |-> res.width, height |-> res.height,
          topDown |-> FALSE, planes |-> 1, bitCount |-> headerBitDepth,
          compression |-> IF useRle8 THEN BI_RLE8 ELSE BI_RGB,
          clrUsed |-> IF headerBitDepth = 8 THEN 256 ELSE 0,
          redMask |-> NoMask, greenMask |-> NoMask, blueMask |-> NoMask,
          alphaMask |-> NoMask, body |-> palette \o data ]

-----------------------------------------------------------------------------
(* PCX files: the fields of the 128-byte header, the number of header bytes *)
(* the file holds (hdrBytes) and the bytes after the header (body).         *)

PcxHeaderSize == 128
PcxManufacturer == 10
PcxMaxDim == 32768
PcxVgaMarker == 12
PcxVgaTrailer == 769

EgaPalette ==
    << <<0, 0, 0>>, <<0, 0, 170>>, <<0, 170, 0>>, <<0, 170, 170>>,
       <<170, 0, 0>>, <<170, 0, 170>>, <<170, 85, 0>>, <<170, 170, 170>>,
       <<85, 85, 85>>, <<85, 85, 255>>, <<85, 255, 85>>, <<85, 255, 255>>,
       <<255, 85, 85>>, <<255, 85, 255>>, <<255, 255, 85>>, <<255, 255, 255>> >>

\* GetPal16: the <<r, g, b>> of entry idx & 15.
GetPal16(ctx, idx) ==
    LET i == idx % 16
    IN  IF ctx.forceDefaultEga THEN EgaPalette[i + 1]
        ELSE <<ctx.colorMap[3 * i + 1], ctx.colorMap[3 * i + 2], ctx.colorMap[3 * i + 3]>>

PcxFail(ctx, code) == [ctx EXCEPT !.result = code]

\* width and height are formed in int from 16-bit bounds and stored unsigned: a
\* negative difference is a number above every limit.
PcxExtent(lo, hi) == IF hi - lo + 1 < 0 THEN Pow30 ELSE hi - lo + 1

ParsePcxHeader(f) ==
    LET bpp == f.bitsPerPixel
        planes == f.nPlanes
        ctx == [ width |-> PcxExtent(f.xMin, f.xMax), height |-> PcxExtent(f.yMin, f.yMax),
                 bytesPerLine |-> f.bytesPerLine, nPlanes |-> planes,
                 bytesPerScanLine |-> f.bytesPerLine * planes,
                 encoding |-> f.encoding, paletteInfo |-> f.paletteInfo,
                 colorMap |-> f.colorMap,
                 isPlanar1bpp |-> bpp = 1 /\ planes >= 1 /\ planes <= 4,
                 isPacked2bpp |-> bpp = 2 /\ planes = 1,
                 isPacked4bpp |-> bpp = 4 /\ planes = 1,
                 isIndexed8bpp |-> bpp = 8 /\ planes = 1,
                 isTrueColor24 |-> bpp = 8 /\ planes = 3,
                 isTrueColor32 |-> bpp = 8 /\ planes = 4,
                 forceDefaultEga |-> f.version = 0 \/ f.version = 3
                                     \/ \A i \in 1 .. 48 : f.colorMap[i] = 0,
                 result |-> CK_OK ]
    IN  IF f.hdrBytes + Len(f.body) < PcxHeaderSize \/ f.hdrBytes < PcxHeaderSize
        THEN PcxFail(ctx, CKBITMAPERROR_READERROR)
        ELSE IF f.manufacturer # PcxManufacturer
        THEN PcxFail(ctx, CKBITMAPERROR_UNSUPPORTEDFILE)
        ELSE IF f.encoding # 0 /\ f.encoding # 1
        THEN PcxFail(ctx, CKBITMAPERROR_UNSUPPORTEDFILE)
        ELSE IF ctx.width = 0 \/ ctx.height = 0
        THEN PcxFail(ctx, CKBITMAPERROR_FILECORRUPTED)
        ELSE IF ctx.width > PcxMaxDim \/ ctx.height > PcxMaxDim
        THEN PcxFail(ctx, CKBITMAPERROR_FILECORRUPTED)
        ELSE IF bpp = 0 \/ planes = 0 \/ f.bytesPerLine = 0
        THEN PcxFail(ctx, CKBITMAPERROR_FILECORRUPTED)
        ELSE IF ~(ctx.isPlanar1bpp \/ ctx.isPacked2bpp \/ ctx.isPacked4bpp
                  \/ ctx.isIndexed8bpp \/ ctx.isTrueColor24 \/ ctx.isTrueColor32)
        THEN PcxFail(ctx, CKBITMAPERROR_UNSUPPORTEDFILE)
        ELSE ctx

\* Variant of PcxRleByte in which a repeat count of 0 repeats nothing.
PcxRleByteNoZero(ctx, data, sl) ==
    LET byte == data[sl.srcPos + 1]
    IN  IF byte >= 192
        THEN LET count == byte % 64
                 toWrite == Min(count, ctx.bytesPerScanLine - sl.linePos)
             IN  IF sl.srcPos + 1 >= Len(data)
                 THEN [sl |-> [sl EXCEPT !.srcPos = sl.srcPos + 1], stop |-> TRUE]
                 ELSE [sl |-> [ line |-> [i \in 1 .. ctx.bytesPerScanLine |->
                                            IF i > sl.linePos /\ i <= sl.linePos + toWrite
                                            THEN data[sl.srcPos + 2] ELSE sl.line[i]],
                                linePos |-> sl.linePos + toWrite,
                                srcPos |-> sl.srcPos + 2 ],
                       stop |-> FALSE]
        ELSE [sl |-> [ line |-> [sl.line EXCEPT ![sl.linePos + 1] = byte],
                       linePos |-> sl.linePos + 1, srcPos |-> sl.srcPos + 1 ],
              stop |-> FALSE]

\* One pass of the RLE loop of DecodeScanLine on sl = [line, linePos, srcPos],
\* and whether the pass left the loop (a run marker that ends the data).
PcxRleByte(ctx, data, sl) ==
    LET byte == data[sl.srcPos + 1]
    IN  IF byte >= 192
        THEN LET count == IF byte % 64 = 0 THEN 1 ELSE byte % 64
                 toWrite == Min(count, ctx.bytesPerScanLine - sl.linePos)
             IN  IF sl.srcPos + 1 >= Len(data)
                 THEN [sl |-> [sl EXCEPT !.srcPos = sl.srcPos + 1], stop |-> TRUE]
                 ELSE [sl |-> [ line |-> [i \in 1 .. ctx.bytesPerScanLine |->
                                            IF i > sl.linePos /\ i <= sl.linePos + toWrite
                                            THEN data[sl.srcPos + 2] ELSE sl.line[i]],
                                linePos |-> sl.linePos + toWrite,
                                srcPos |-> sl.srcPos + 2 ],
                       stop |-> FALSE]
        ELSE [sl |-> [ line |-> [sl.line EXCEPT ![sl.linePos + 1] = byte],
                       linePos |-> sl.linePos + 1, srcPos |-> sl.srcPos + 1 ],
              stop |-> FALSE]

\* The condition of the RLE loop of DecodeScanLine.
PcxRleMore(ctx, data, sl) ==
    sl.linePos < ctx.bytesPerScanLine /\ sl.srcPos < Len(data)

\* The RLE loop of DecodeScanLine.
RECURSIVE PcxRleLine(_, _, _)
PcxRleLine(ctx, data, sl) ==
    IF PcxRleMore(ctx, data, sl)
    THEN LET r == PcxRleByte(ctx, data, sl)
         IN  IF r.stop THEN r.sl ELSE PcxRleLine(ctx, data, r.sl)
    ELSE sl

\* DecodeScanLine from srcPos: the scanline and the position after it.
DecodeScanLine(ctx, data, srcPos) ==
    LET zero == [i \in 1 .. ctx.bytesPerScanLine |-> 0]
    IN  IF Len(data) = 0 THEN [line |-> zero, linePos |-> 0, srcPos |-> srcPos]
        ELSE IF ctx.encoding = 0
        THEN LET remaining == IF srcPos < Len(data) THEN Len(data) - srcPos ELSE 0
                 toCopy == Min(remaining, ctx.bytesPerScanLine)
             IN  [ line |-> [i \in 1 .. ctx.bytesPerScanLine |->
                               IF i <= toCopy THEN data[srcPos + i] ELSE 0],
                   linePos |-> toCopy, srcPos |-> srcPos + toCopy ]
        ELSE PcxRleLine(ctx, data, [line |-> zero, linePos |-> 0, srcPos |-> srcPos])

\* The decoded scanlines of the image, top row first, and the final position.
RECURSIVE PcxScanLines(_, _, _, _)
PcxScanLines(ctx, data, srcPos, y) ==
    IF y < ctx.height
    THEN LET sl == DecodeScanLine(ctx, data, srcPos)
             rest == PcxScanLines(ctx, data, sl.srcPos, y + 1)
         IN  [lines |-> <<sl.line>> \o rest.lines, srcPos |-> rest.srcPos]
    ELSE [lines |-> << >>, srcPos |-> srcPos]

\* The pixel the row decoder of the file's layout writes at column x, or the
\* initial pixel where it writes none.
PcxRowPixel(ctx, line, x) ==
    LET bpl == ctx.bytesPerLine
        L(i) == line[i + 1]
        Bit(p) == (L(p * bpl + x \div 8) \div 2 ^ (7 - (x % 8))) % 2
        Bgr(rgb) == <<rgb[3], rgb[2], rgb[1], 255>>
    IN  CASE ctx.isTrueColor24 ->
               IF x < bpl THEN <<L(2 * bpl + x), L(bpl + x), L(x), 255>> ELSE <<0, 0, 0, 255>>
          [] ctx.isTrueColor32 ->
               IF x < bpl THEN <<L(2 * bpl + x), L(bpl + x), L(x), L(3 * bpl + x)>>
               ELSE <<0, 0, 0, 255>>
          [] ctx.isPlanar1bpp ->
               IF x >= bpl * 8 THEN <<0, 0, 0, 255>>
               ELSE LET idx == Bit(0)
                               + (IF ctx.nPlanes > 1 THEN 2 * Bit(1) ELSE 0)
                               + (IF ctx.nPlanes > 2 THEN 4 * Bit(2) ELSE 0)
                               + (IF ctx.nPlanes > 3 THEN 8 * Bit(3) ELSE 0)
                    IN  IF ctx.paletteInfo = 2 /\ ctx.nPlanes = 1
                        THEN IF idx % 2 = 1 THEN <<255, 255, 255, 255>> ELSE <<0, 0, 0, 255>>
                        ELSE Bgr(GetPal16(ctx, idx))
          [] ctx.isPacked2bpp ->
               IF x >= bpl * 4 THEN <<0, 0, 0, 255>>
               ELSE Bgr(GetPal16(ctx, (L(x \div 4) \div 2 ^ (6 - 2 * (x % 4))) % 4))
          [] OTHER ->
               IF x >= bpl * 2 THEN <<0, 0, 0, 255>>
               ELSE Bgr(GetPal16(ctx, IF x % 2 = 1 THEN L(x \div 2) % 16
                                      ELSE L(x \div 2) \div 16))

\* Variant of FindVgaPalette that looks at the end of the file only.
FindVgaPaletteAtEnd(data, imageEndPos) ==
    IF Len(data) < PcxVgaTrailer THEN -1
    ELSE IF data[Len(data) - PcxVgaTrailer + 1] = PcxVgaMarker
    THEN Len(data) - PcxVgaTrailer + 1
    ELSE -1

\* FindVgaPalette: the offset of the 768 palette bytes in data, or -1.
FindVgaPalette(data, imageEndPos) ==
    IF Len(data) < PcxVgaTrailer THEN -1
    ELSE IF imageEndPos + PcxVgaTrailer <= Len(data) /\ data[imageEndPos + 1] = PcxVgaMarker
    THEN imageEndPos + 1
    ELSE IF data[Len(data) - PcxVgaTrailer + 1] = PcxVgaMarker
    THEN Len(data) - PcxVgaTrailer + 1
    ELSE -1

\* Variant of ApplyIndexedPalette that uses a palette whenever there is one.
ApplyIndexedPaletteAlways(data, vgaPal, grayscale, idx) ==
    IF vgaPal >= 0
    THEN <<data[vgaPal + idx * 3 + 3], data[vgaPal + idx * 3 + 2],
           data[vgaPal + idx * 3 + 1], 255>>
    ELSE <<idx, idx, idx, 255>>

\* ApplyIndexedPalette for one index.
ApplyIndexedPalette(data, vgaPal, grayscale, idx) ==
    IF ~grayscale /\ vgaPal >= 0
    THEN <<data[vgaPal + idx * 3 + 3], data[vgaPal + idx * 3 + 2],
           data[vgaPal + idx * 3 + 1], 255>>
    ELSE <<idx, idx, idx, 255>>

PCX_Read(f) ==
    LET ctx == ParsePcxHeader(f)
        data == f.body
        total == ctx.width * ctx.height
    IN  IF ctx.result # CK_OK THEN Failure(ctx.result)
        ELSE IF total >= Pow30 \div 2 THEN Failure(CKBITMAPERROR_FILECORRUPTED)
        ELSE
        LET scan == PcxScanLines(ctx, data, 0, 0)
            vgaPal == FindVgaPalette(data, scan.srcPos)
            Index(y, x) == IF x < Min(ctx.width, ctx.bytesPerLine)
                           THEN scan.lines[y + 1][x + 1] ELSE 0
        IN  Outcome(CK_OK, ctx.width, ctx.height,
                    [k \in 1 .. total |->
                       LET y == (k - 1) \div ctx.width
                           x == (k - 1) % ctx.width
                       IN  IF ctx.isIndexed8bpp
                           THEN ApplyIndexedPalette(data, vgaPal, ctx.paletteInfo = 2,
                                                    Index(y, x))
                           ELSE PcxRowPixel(ctx, scan.lines[y + 1], x)],
                    total, 0, FALSE, FALSE, FALSE)

-----------------------------------------------------------------------------
(* Inputs of the model.                                                    *)

\* The image sizes <<width, height>> of the inputs.
Dims == {d \in (1 .. MaxArea) \X (1 .. MaxArea) : d[1] * d[2] <= MaxArea}

\* The pixel data of n pixels whose samples repeat the pattern pat.
PatternBody(pat, n) == Flatten([k \in 1 .. n |-> pat[((k - 1) % Len(pat)) + 1]])

\* What a read of memory the decoder does not own may yield.
JunkBytes == {0, 205}

TgaFile(type, w, h, depth, desc, body) ==
    [ format |-> "tga",
      hdrBytes |-> TgaHeaderSize, idLength |-> 0, colorMapType |-> 0, imageType |-> type,
      colorMapOrigin |-> 0, colorMapLength |-> 0, colorMapDepth |-> 0,
      width |-> w, height |-> h, pixelDepth |-> depth, imageDescriptor |-> desc,
      body |-> body ]

\* Bytes that serve both as RLE packet headers (raw 1, raw 2, run 3) and as gray
\* samples.
TgaRleBytes == {0, 1, 130}

\* RLE grayscale images with arbitrary packet streams.
TgaRleInputs ==
    { TgaFile(TGA_TYPE_RLE_GRAYSCALE, d[1], d[2], 8, desc, body) :
        d \in Dims, desc \in {0, 32, 80},
        body \in SeqsUpTo(TgaRleBytes, MaxRleLen) }

\* Samples of each pixel layout: <<type, depth, descriptor, samples>>.
TgaLayouts ==
    { <<TGA_TYPE_TRUECOLOR, 24, 0, {<<1, 2, 3>>, <<200, 0, 255>>}>>,
      <<TGA_TYPE_TRUECOLOR, 24, 32, {<<1, 2, 3>>, <<200, 0, 255>>}>>,
      <<TGA_TYPE_TRUECOLOR, 24, 80, {<<1, 2, 3>>, <<200, 0, 255>>}>>,
      <<TGA_TYPE_TRUECOLOR, 24, 160, {<<1, 2, 3>>, <<200, 0, 255>>}>>,
      <<TGA_TYPE_TRUECOLOR, 32, 8, {<<1, 2, 3, 4>>, <<9, 8, 7, 255>>}>>,
      <<TGA_TYPE_TRUECOLOR, 32, 40, {<<1, 2, 3, 0>>, <<9, 8, 7, 255>>}>>,
      <<TGA_TYPE_TRUECOLOR, 16, 1, {<<31, 128>>, <<224, 3>>}>>,
      <<TGA_TYPE_TRUECOLOR, 16, 0, {<<31, 128>>, <<0, 124>>}>>,
      <<TGA_TYPE_TRUECOLOR, 15, 0, {<<31, 128>>, <<0, 124>>}>>,
      <<TGA_TYPE_GRAYSCALE, 8, 0, {<<7>>, <<250>>}>>,
      <<TGA_TYPE_GRAYSCALE, 16, 8, {<<7, 9>>, <<250, 255>>}>>,
      <<TGA_TYPE_GRAYSCALE, 16, 0, {<<7, 9>>, <<250, 255>>}>>,
      <<TGA_TYPE_RLE_TRUECOLOR, 24, 0, {<<0, 1, 2, 3>>, <<129, 5, 5, 5>>}>> }

\* Images of every layout; drop bytes are missing from the end of the data.
TgaLayoutFiles(l) ==
    { TgaFile(l[1], d[1], d[2], l[2], l[3],
              LET full == PatternBody(pat, d[1] * d[2])
              IN  SubSeq(full, 1, Len(full) - Min(drop, Len(full)))) :
        d \in Dims, drop \in {0, 1},
        pat \in UNION {SeqsOfLen(l[4], n) : n \in {1, PatternLen}} }

TgaLayoutInputs == UNION {TgaLayoutFiles(l) : l \in TgaLayouts}

\* Colour-mapped images: a 2-entry map of the given depth, then 8-bit indices.
TgaMapped(type, w, h, cmDepth, origin, desc, cm, idx) ==
    [ TgaFile(type, w, h, 8, desc, cm \o idx)
        EXCEPT !.colorMapType = 1, !.colorMapOrigin = origin,
               !.colorMapLength = 2, !.colorMapDepth = cmDepth ]

TgaMappedInputs ==
    { TgaMapped(TGA_TYPE_COLORMAP, d[1], d[2], m[1], origin, m[2], m[3],
                PatternBody(pat, d[1] * d[2])) :
        m \in { <<24, 0, <<1, 2, 3, 4, 5, 6>> >>,
                <<32, 8, <<1, 2, 3, 4, 5, 6, 7, 8>> >>,
                <<16, 1, <<31, 128, 224, 3>> >> },
        origin \in {0, 1}, d \in Dims,
        pat \in SeqsOfLen({<<0>>, <<1>>, <<2>>}, 2) }

\* Headers that must be rejected, complete or cut short.
TgaHeaderInputs ==
    { [TgaFile(type, 1, 1, 24, 0, << >>) EXCEPT !.hdrBytes = n] :
        type \in {TGA_TYPE_TRUECOLOR, 0, 4, 99}, n \in {1, 3, 17} }
    \cup { TgaFile(type, w, h, depth, desc, <<1, 2, 3>>) :
             type \in {TGA_TYPE_TRUECOLOR, TGA_TYPE_RLE_TRUECOLOR, 0, 4, 99},
             w \in {0, 1}, h \in {0, 1}, depth \in {24, 7}, desc \in {0, 192} }
    \cup { [TgaFile(type, 1, 1, 24, 0, <<1, 2, 3>>) EXCEPT !.idLength = n] :
             type \in {TGA_TYPE_TRUECOLOR, TGA_TYPE_RLE_TRUECOLOR, 99}, n \in {1, 3, 5} }
    \cup { TgaFile(TGA_TYPE_TRUECOLOR, 65535, 65535, 24, 0, <<1, 2, 3>>) }
    \cup { [TgaMapped(TGA_TYPE_COLORMAP, 1, 1, d, 0, 0, cm, <<0>>)
              EXCEPT !.colorMapLength = n] :
             d \in {24, 8, 0}, n \in {0, 2, 3}, cm \in {<<1, 2, 3, 4, 5, 6>>} }
    \cup { [TgaFile(type, 1, 1, depth, 0, body)
              EXCEPT !.colorMapType = 1, !.colorMapLength = 2, !.colorMapDepth = cmd] :
             type \in {TGA_TYPE_TRUECOLOR, TGA_TYPE_COLORMAP, TGA_TYPE_GRAYSCALE},
             depth \in {8, 7, 24}, cmd \in {24, 8},
             body \in {<<1, 2>>, <<1, 2, 3, 4, 5, 6, 0, 0, 0>>} }

TgaInputs == TgaRleInputs \cup TgaLayoutInputs \cup TgaMappedInputs \cup TgaHeaderInputs

-----------------------------------------------------------------------------
(* BMP inputs.                                                             *)

BmpFile(headerSize, w, h, td, bitCount, compression, clrUsed, gap, body) ==
    [ format |-> "bmp", hdrBytes |-> BmpFileHeaderSize + headerSize,
      bfType |-> BmpMagic, bfOffBits |-> BmpFileHeaderSize + headerSize + gap,
      headerSize |-> headerSize, width |-> w, height |-> h, topDown |-> td,
      planes |-> 1, bitCount |-> bitCount, compression |-> compression,
      clrUsed |-> clrUsed,
      redMask |-> NoMask, greenMask |-> NoMask, blueMask |-> NoMask, alphaMask |-> NoMask,
      body |-> body ]

\* A two-entry palette of 4-byte entries, and of 3-byte entries.
BmpPal2 == <<10, 20, 30, 0, 40, 50, 60, 0>>

BmpPal2Core == <<10, 20, 30, 40, 50, 60>>

\* Bytes that serve as RLE counts, escapes and indices (3 lies outside a
\* two-entry palette).
BmpRleBytes == {0, 1, 2, 3}

\* Whole RLE8 tokens: end of line, end of bitmap, deltas, runs, an absolute run.
BmpRle8Tokens ==
    { <<0, 0>>, <<0, 1>>, <<0, 2, 1, 0>>, <<0, 2, 0, 1>>, <<0, 2, 3, 3>>,
      <<2, 1>>, <<3, 3>>, <<0, 3, 1, 0, 3, 0>> }

BmpRle4Tokens ==
    { <<0, 0>>, <<0, 1>>, <<0, 2, 1, 1>>, <<3, 16>>, <<2, 49>>, <<0, 3, 16, 48>>,
      <<0, 5, 1, 3>> }

BmpRleStreams(tokens) ==
    {Flatten(q) : q \in SeqsUpTo(tokens, MaxTokens)}
    \cup SeqsUpTo(BmpRleBytes, MaxRleLen - 1)

BmpRle8Inputs ==
    { BmpFile(BmpInfoHeaderSize, d[1], d[2], td, 8, BI_RLE8, 2, 8, BmpPal2 \o stream) :
        d \in Dims, td \in BOOLEAN, stream \in BmpRleStreams(BmpRle8Tokens) }

BmpRle4Inputs ==
    { BmpFile(BmpInfoHeaderSize, d[1], d[2], td, 4, BI_RLE4, 2, 8, BmpPal2 \o stream) :
        d \in Dims, td \in BOOLEAN, stream \in BmpRleStreams(BmpRle4Tokens) }

\* Widths whose byte stride width * 4 does not fit 32 bits.
BmpWideInputs ==
    { BmpFile(BmpInfoHeaderSize, w, h, td, 8, BI_RLE8, 2, 8, BmpPal2 \o stream) :
        w \in {Pow30, Pow30 + 1}, h \in {1, 2}, td \in BOOLEAN,
        stream \in {<< >>, <<0, 1>>, <<1, 1>>, <<2, 0>>, <<0, 0, 1, 1>>, <<0, 2, 1, 0, 1, 1>>} }

\* One stored row: the units of the pattern, then padding to a multiple of 4.
BmpRowBytes(pat, first, units) ==
    LET used == Flatten([k \in 1 .. units |-> pat[((first + k - 1) % Len(pat)) + 1]])
    IN  used \o [i \in 1 .. (4 - (Len(used) % 4)) % 4 |-> 0]

\* Units (pixels, or bytes below 8 bits a pixel) in a row.
BmpUnits(w, bitCount) == IF bitCount >= 8 THEN w ELSE (w * bitCount + 7) \div 8

BmpPixelData(pat, w, h, bitCount) ==
    Flatten([r \in 1 .. h |->
               BmpRowBytes(pat, (r - 1) * BmpUnits(w, bitCount), BmpUnits(w, bitCount))])

\* Layouts: <<headerSize, bitCount, compression, clrUsed, bytes before the pixel
\* data, samples>>.
BmpLayouts ==
    { <<40, 24, BI_RGB, 0, << >>, {<<1, 2, 3>>, <<200, 0, 255>>}>>,
      <<40, 32, BI_RGB, 0, << >>, {<<1, 2, 3, 4>>, <<9, 8, 7, 0>>}>>,
      <<40, 16, BI_RGB, 0, << >>, {<<31, 124>>, <<224, 3>>}>>,
      <<40, 8, BI_RGB, 2, BmpPal2, {<<1>>, <<2>>}>>,
      <<40, 4, BI_RGB, 2, BmpPal2, {<<1>>, <<35>>}>>,
      <<40, 1, BI_RGB, 0, BmpPal2, {<<128>>, <<64>>}>>,
      <<12, 8, BI_RGB, 0, BmpPal2Core \o [i \in 1 .. 762 |-> i % 256], {<<1>>, <<255>>}>>,
      <<12, 24, BI_RGB, 0, << >>, {<<1, 2, 3>>, <<200, 0, 255>>}>>,
      <<40, 32, BI_BITFIELDS, 0, <<0, 0, 255, 0, 0, 255, 0, 0, 255, 0, 0, 0>>,
        {<<1, 2, 3, 4>>, <<9, 8, 7, 0>>}>>,
      <<40, 32, BI_ALPHABITFIELDS, 0,
        <<0, 0, 255, 0, 0, 255, 0, 0, 255, 0, 0, 0, 0, 0, 0, 255>>,
        {<<1, 2, 3, 4>>, <<9, 8, 7, 0>>}>>,
      <<40, 16, BI_BITFIELDS, 0, <<0, 248, 0, 0, 224, 7, 0, 0, 31, 0, 0, 0>>,
        {<<31, 0>>, <<224, 255>>}>> }

BmpLayoutFiles(l) ==
    { BmpFile(l[1], d[1], d[2], td /\ l[1] # 12, l[2], l[3], l[4], Len(l[5]),
              LET full == l[5] \o BmpPixelData(pat, d[1], d[2], l[2])
              IN  SubSeq(full, 1, Len(full) - drop)) :
        d \in Dims, td \in BOOLEAN, drop \in {0, 1},
        pat \in UNION {SeqsOfLen(l[6], n) : n \in {1, PatternLen}} }

\* 32-bit and 16-bit files whose masks sit in a 56-byte header.
BmpMaskedInputs ==
    { [BmpFile(56, d[1], d[2], td, m[1], BI_BITFIELDS, 0, 0,
               BmpPixelData(pat, d[1], d[2], m[1]))
         EXCEPT !.redMask = m[2], !.greenMask = m[3], !.blueMask = m[4],
                !.alphaMask = m[5]] :
        d \in Dims, td \in BOOLEAN,
        m \in { <<32, [shift |-> 16, bits |-> 8], [shift |-> 8, bits |-> 8],
                  [shift |-> 0, bits |-> 8], [shift |-> 24, bits |-> 8]>>,
                <<32, [shift |-> 16, bits |-> 8], [shift |-> 8, bits |-> 8],
                  [shift |-> 0, bits |-> 8], NoMask>>,
                <<32, [shift |-> 20, bits |-> 4], [shift |-> 6, bits |-> 5],
                  NoMask, NoMask>> },
        pat \in SeqsOfLen({<<1, 2, 3, 4>>, <<255, 255, 255, 128>>}, PatternLen - 1) }

\* Headers that must be rejected, complete or cut short, and pixel-data offsets
\* before the palette end or past the end of the file.
BmpHeaderInputs ==
    { [BmpFile(BmpInfoHeaderSize, 1, 1, FALSE, 24, BI_RGB, 0, 0, << >>)
         EXCEPT !.hdrBytes = n, !.bfType = tag] :
        n \in {1, 2, 13, 14, 17, 30, 53}, tag \in {BmpMagic, 16973} }
    \cup { [BmpFile(hs, w, h, FALSE, bc, comp, used, 0, <<1, 2, 3, 0>>)
              EXCEPT !.bfType = tag, !.planes = planes] :
             hs \in {40, 16}, w \in {0, 1}, h \in {0, 1}, bc \in {24, 2, 4, 8},
             comp \in {BI_RGB, BI_RLE8, BI_RLE4, BI_JPEG, 7}, used \in {0, 17},
             tag \in {BmpMagic, 16973}, planes \in {0, 1} }
    \cup { [BmpFile(BmpInfoHeaderSize, 1, 1, td, bc, comp, 2, 8, BmpPal2 \o data)
              EXCEPT !.bfOffBits = off] :
             td \in BOOLEAN, bc \in {8}, comp \in {BI_RGB, BI_RLE8},
             data \in {<<1, 1, 0, 1>>, <<1, 0, 0, 0>>},
             off \in {54, 61, 62, 64, 66, 67, 80} }
    \cup { [BmpFile(BmpInfoHeaderSize, 1, 1, FALSE, 8, BI_RGB, 2, 8, body)
              EXCEPT !.bfOffBits = off] :
             body \in {<<10, 20, 30, 0>>, BmpPal2 \o <<1, 0, 0, 0>>},
             off \in {10, 62} }

BmpInputs ==
    BmpRle8Inputs \cup BmpRle4Inputs \cup BmpWideInputs
    \cup UNION {BmpLayoutFiles(l) : l \in BmpLayouts}
    \cup BmpMaskedInputs \cup BmpHeaderInputs

-----------------------------------------------------------------------------
(* PCX inputs.                                                             *)

PcxFile(w, h, bpp, planes, bpl, encoding, paletteInfo, body) ==
    [ format |-> "pcx", hdrBytes |-> PcxHeaderSize, manufacturer |-> PcxManufacturer,
      version |-> 5, encoding |-> encoding, bitsPerPixel |-> bpp,
      xMin |-> 0, yMin |-> 0, xMax |-> w - 1, yMax |-> h - 1,
      colorMap |-> [i \in 1 .. 48 |-> (i * 5) % 256],
      nPlanes |-> planes, bytesPerLine |-> bpl, paletteInfo |-> paletteInfo,
      body |-> body ]

\* A 256-entry VGA palette behind its marker; entry i is <<i, 255 - i, 7>>.
PcxVgaPalette ==
    <<PcxVgaMarker>>
    \o [k \in 1 .. 768 |->
          CASE (k - 1) % 3 = 0 -> (k - 1) \div 3
            [] (k - 1) % 3 = 1 -> 255 - ((k - 1) \div 3)
            [] OTHER -> 7]

\* 8-bit indexed images, with and without the palette trailer, and with bytes
\* between the pixel data and the trailer.
PcxIndexedInputs ==
    { PcxFile(d[1], d[2], 8, 1, d[1] + slack, enc, info,
              PatternBody(pat, (d[1] + slack) * d[2]) \o trailer) :
        d \in Dims, slack \in {0, 1}, enc \in {0, 1}, info \in {1, 2},
        trailer \in {<< >>, PcxVgaPalette, <<0>> \o PcxVgaPalette, PcxVgaPalette \o <<0>>},
        pat \in SeqsOfLen({<<5>>, <<194, 9>>, <<255>>, <<192, 6>>}, PatternLen - 1) }

\* Layouts: <<bitsPerPixel, nPlanes, samples>>.
PcxLayouts ==
    { <<8, 3, {<<1>>, <<195, 7>>}>>,
      <<8, 4, {<<1>>, <<200>>}>>,
      <<1, 1, {<<128>>, <<64>>}>>,
      <<1, 4, {<<128>>, <<193, 64>>}>>,
      <<2, 1, {<<27>>, <<228>>}>>,
      <<4, 1, {<<18>>, <<240>>}>> }

PcxLayoutFiles(l) ==
    { [PcxFile(d[1], d[2], l[1], l[2], IF l[1] = 8 THEN d[1] ELSE 1, enc, v[1],
               LET full == PatternBody(pat, (IF l[1] = 8 THEN d[1] ELSE 1) * l[2] * d[2])
               IN  SubSeq(full, 1, Len(full) - Min(drop, Len(full))))
         EXCEPT !.version = v[2]] :
        d \in Dims, enc \in {0, 1}, drop \in {0, 1},
        v \in {<<1, 5>>, <<2, 5>>, <<1, 3>>}, pat \in SeqsOfLen(l[3], PatternLen - 1) }

\* Headers that must be rejected, complete or cut short.
PcxHeaderInputs ==
    { [PcxFile(1, 1, 8, 1, 1, 1, 1, << >>) EXCEPT !.hdrBytes = n, !.manufacturer = m] :
        n \in {1, 64, 127}, m \in {PcxManufacturer, 5} }
    \cup { [PcxFile(1, 1, bpp, planes, bpl, enc, 1, <<1, 2, 3>>)
              EXCEPT !.manufacturer = m, !.xMin = x[1], !.xMax = x[2],
                     !.yMin = y[1], !.yMax = y[2]] :
             bpp \in {8, 0, 3}, planes \in {1, 0, 2}, bpl \in {1, 0}, enc \in {1, 2},
             m \in {PcxManufacturer, 5},
             x \in {<<0, 0>>, <<1, 0>>, <<0, 32768>>, <<5, 0>>},
             y \in {<<0, 0>>, <<1, 0>>, <<0, 32768>>, <<0, 65535>>} }

PcxInputs ==
    PcxIndexedInputs \cup UNION {PcxLayoutFiles(l) : l \in PcxLayouts} \cup PcxHeaderInputs

-----------------------------------------------------------------------------
(* The readers.  A reader decodes a block of memory (DecodeMemory) and the  *)
(* file of the same bytes (DecodeFile); it saves a decoded image            *)
(* (SaveMemory), and what it saved is decoded again (Reload).  One reader   *)
(* object is also driven through any sequence of ReadMemory, ReadFile,      *)
(* FreeBitmapData and destruction.                                          *)

Inputs == TgaInputs \cup BmpInputs \cup PcxInputs

\* The well-formed and cut-short images of every pixel layout and the images
\* with arbitrary RLE streams, whose decoded buffers are saved again.
SaveInputs ==
    TgaLayoutInputs \cup TgaMappedInputs \cup TgaRleInputs
    \cup UNION {BmpLayoutFiles(l) : l \in BmpLayouts} \cup BmpMaskedInputs
    \cup BmpRle8Inputs \cup BmpRle4Inputs
    \cup UNION {PcxLayoutFiles(l) : l \in PcxLayouts}

\* What the build leaves open: the bytes of memory a decoder does not own and
\* the order in which the two arguments of a call are evaluated.
UbChoices == [junk : JunkBytes, swapArgs : BOOLEAN]

\* XXX_Read of the reader for the format of f.
Decode(f, kind, ub) ==
    CASE f.format = "tga" -> TGA_Read(f, kind, ub.junk)
      [] f.format = "bmp" -> BMP_Read(f, kind, ub)
      [] OTHER -> PCX_Read(f)

\* SaveMemory of the reader for format fmt; the PCX reader saves nothing.
Encode(fmt, res, opt, junk) ==
    CASE fmt = "tga" -> TGA_Save(res, opt.bitDepth, opt.useRLE)
      [] fmt = "bmp" -> BMP_Save(res, opt.bitDepth, junk)
      [] OTHER -> NoFile

\* The values the save options of each reader can take.
SaveOptions(fmt) ==
    CASE fmt = "tga" -> [bitDepth : {16, 24, 32}, useRLE : BOOLEAN]
      [] fmt = "bmp" -> [bitDepth : {8, 9, 16, 24, 32}, useRLE : {FALSE}]
      [] OTHER -> [bitDepth : {24}, useRLE : {FALSE}]

\* The decode handed back a buffer of width * height pixels.
WholeImage(res) ==
    res.code = CK_OK /\ res.width < Pow30 /\ Len(res.pixels) = res.width * res.height

\* The properties of a reader after its constructor: no buffer (0), no image.
PropsInit(ext) ==
    [m_Ext |-> ext, m_Data |-> 0, Image |-> 0, Width |-> 0, Height |-> 0,
     BytesPerLine |-> 0, BitsPerPixel |-> 0, m_BitDepth |-> 24,
     RedMask |-> NoMask, GreenMask |-> NoMask, BlueMask |-> NoMask, AlphaMask |-> NoMask]

\* The channel masks of the output format, as bit position and bit count.
R_MASK == [shift |-> 16, bits |-> 8]
G_MASK == [shift |-> 8, bits |-> 8]
B_MASK == [shift |-> 0, bits |-> 8]
A_MASK == [shift |-> 24, bits |-> 8]

\* The 32-bit stride width * 4 that each decoder computes, in bytes.
DstStride(width) == (width % Pow30) * 4

\* The image description a successful decode writes into the properties.
FillFormatBGRA32(p, width, height, bytesPerLine, image) ==
    [p EXCEPT !.Image = image, !.Width = width, !.Height = height,
              !.BytesPerLine = bytesPerLine, !.BitsPerPixel = 32,
              !.RedMask = R_MASK, !.GreenMask = G_MASK,
              !.BlueMask = B_MASK, !.AlphaMask = A_MASK]

NoOpt == [bitDepth |-> 0, useRLE |-> FALSE]

Fresh ==
    /\ memOut = NotRun /\ fileOut = NotRun
    /\ saved = NoFile /\ saveOpt = NoOpt /\ reOut = NotRun
    /\ heap = << >> /\ alive = TRUE

Init == input \in Inputs /\ props = PropsInit(input.format) /\ Fresh

DecodeMemory ==
    /\ memOut = NotRun
    /\ \E ub \in UbChoices : memOut' = Decode(input, "memory", ub)
    /\ UNCHANGED <<input, fileOut, saved, saveOpt, reOut, props, heap, alive>>

DecodeFile ==
    /\ fileOut = NotRun
    /\ \E ub \in UbChoices : fileOut' = Decode(input, "file", ub)
    /\ UNCHANGED <<input, memOut, saved, saveOpt, reOut, props, heap, alive>>

SaveMemory ==
    /\ WholeImage(memOut) /\ saveOpt = NoOpt
    /\ \E opt \in SaveOptions(input.format), junk \in JunkBytes :
         /\ saveOpt' = opt
         /\ saved' = Encode(input.format, memOut, opt, junk)
    /\ UNCHANGED <<input, memOut, fileOut, reOut, props, heap, alive>>

Reload ==
    /\ saved # NoFile /\ reOut = NotRun
    /\ \E ub \in UbChoices : reOut' = Decode(saved, "memory", ub)
    /\ UNCHANGED <<input, memOut, fileOut, saved, saveOpt, props, heap, alive>>

-----------------------------------------------------------------------------
(* One reader object.  heap lists the pixel buffers allocated so far, each  *)
(* with the number of times it was released; props.m_Data and props.Image   *)
(* hold the number of a buffer, 0 for NULL.                                 *)

\* The files handed to a reader of each format: images of several sizes, an
\* image cut short, a header that is refused.
LifeInputs(fmt) ==
    CASE fmt = "tga" ->
           { TgaFile(TGA_TYPE_TRUECOLOR, 1, 1, 24, 0, <<1, 2, 3>>),
             TgaFile(TGA_TYPE_TRUECOLOR, 2, 1, 24, 32, <<1, 2, 3, 4, 5, 6>>),
             TgaFile(TGA_TYPE_TRUECOLOR, 1, 2, 24, 0, <<1, 2, 3>>),
             TgaFile(TGA_TYPE_RLE_GRAYSCALE, 2, 1, 8, 0, <<0, 7>>),
             TgaFile(TGA_TYPE_TRUECOLOR, 1, 1, 32, 8, <<1, 2, 3, 4>>),
             TgaFile(99, 1, 1, 24, 0, <<1, 2, 3>>) }
      [] fmt = "bmp" ->
           { BmpFile(40, 1, 1, FALSE, 24, BI_RGB, 0, 0, <<1, 2, 3, 0>>),
             BmpFile(40, 2, 1, TRUE, 32, BI_RGB, 0, 0, <<1, 2, 3, 4, 5, 6, 7, 8>>),
             BmpFile(40, 1, 2, FALSE, 24, BI_RGB, 0, 0, <<1, 2, 3, 0>>),
             BmpFile(40, 1, 1, FALSE, 7, BI_RGB, 0, 0, <<1, 2, 3, 0>>),
             BmpFile(BmpInfoHeaderSize, Pow30, 1, FALSE, 8, BI_RLE8, 2, 8, BmpPal2) }
      [] OTHER ->
           { PcxFile(1, 1, 8, 3, 1, 0, 1, <<1, 2, 3>>),
             PcxFile(2, 1, 8, 3, 2, 0, 1, <<1, 2, 3, 4, 5, 6>>),
             PcxFile(1, 2, 8, 3, 1, 0, 1, <<1, 2, 3>>),
             PcxFile(1, 1, 3, 1, 1, 0, 1, <<1, 2, 3>>) }

\* Variant of Load in which a failing decode clears the properties.
LoadClearing(res) ==
    IF res.code = CK_OK
    THEN /\ heap' = Append(heap, [size |-> res.allocPx, frees |-> 0, returned |-> TRUE])
         /\ props' = [FillFormatBGRA32(props, res.width, res.height,
                                        DstStride(res.width), Len(heap) + 1)
                          EXCEPT !.m_Data = Len(heap) + 1,
                                 !.m_BitDepth = IF props.m_Ext = "tga" THEN res.bitDepth
                                                ELSE @]
    ELSE /\ heap' = IF res.allocPx >= 0
                    THEN Append(heap, [size |-> res.allocPx, frees |-> 1,
                                       returned |-> FALSE])
                    ELSE heap
         /\ props' = PropsInit(props.m_Ext)

\* What XXX_Read leaves in the heap and in the properties it is given: a
\* successful decode allocates a buffer and stores it over whatever m_Data
\* held; a decode failing after the allocation releases its buffer itself.
Load(res) ==
    IF res.code = CK_OK
    THEN /\ heap' = Append(heap, [size |-> res.allocPx, frees |-> 0, returned |-> TRUE])
         /\ props' = [FillFormatBGRA32(props, res.width, res.height,
                                        DstStride(res.width), Len(heap) + 1)
                          EXCEPT !.m_Data = Len(heap) + 1,
                                 !.m_BitDepth = IF props.m_Ext = "tga" THEN res.bitDepth
                                                ELSE @]
    ELSE IF res.allocPx >= 0
    THEN /\ heap' = Append(heap, [size |-> res.allocPx, frees |-> 1, returned |-> FALSE])
         /\ UNCHANGED props
    ELSE UNCHANGED <<heap, props>>

\* ImageReader::FreeBitmapData on properties p: delete[] m_Data if it is set,
\* then m_Data = NULL; m_Format.Image keeps its value.
Release(p) ==
    /\ heap' = IF p.m_Data # 0 THEN [heap EXCEPT ![p.m_Data].frees = @ + 1] ELSE heap
    /\ props' = [p EXCEPT !.m_Data = 0]

ReadMemory ==
    /\ alive /\ Len(heap) < MaxReads
    /\ \E f \in LifeInputs(props.m_Ext), ub \in UbChoices :
         /\ input' = f
         /\ memOut' = Decode(f, "memory", ub)
         /\ Load(memOut')
    /\ UNCHANGED <<fileOut, saved, saveOpt, reOut, alive>>

ReadFile ==
    /\ alive /\ Len(heap) < MaxReads
    /\ \E f \in LifeInputs(props.m_Ext), ub \in UbChoices :
         /\ input' = f
         /\ fileOut' = Decode(f, "file", ub)
         /\ Load(fileOut')
    /\ UNCHANGED <<memOut, saved, saveOpt, reOut, alive>>

FreeBitmapData ==
    /\ alive
    /\ Release(props)
    /\ UNCHANGED <<input, memOut, fileOut, saved, saveOpt, reOut, alive>>

\* XxxReader::SaveMemory of the reader's own properties: PCX saves nothing;
\* BMP_Save and TGA_Save return 0 when m_Format.Image is null or a dimension
\* is 0, and else read the pixels m_Format.Image points at.  saved records the
\* buffer that was read and whether it had been released before.
SaveProperties ==
    /\ alive
    /\ LET reads == /\ props.m_Ext # "pcx" /\ props.Image # 0
                    /\ props.Width # 0 /\ props.Height # 0
       IN  saved' = [ size |-> 0, format |-> props.m_Ext,
                      image |-> IF reads THEN props.Image ELSE 0,
                      readFreed |-> reads /\ heap[props.Image].frees > 0 ]
    /\ UNCHANGED <<input, memOut, fileOut, saveOpt, reOut, props, heap, alive>>

\* ~XxxReader: FreeBitmapData(&m_Properties).
Destroy ==
    /\ alive
    /\ Release(props)
    /\ alive' = FALSE
    /\ UNCHANGED <<input, memOut, fileOut, saved, saveOpt, reOut>>

LifeInit ==
    /\ input = NoFile
    /\ \E fmt \in {"tga", "bmp", "pcx"} : props = PropsInit(fmt)
    /\ Fresh

LifeNext == ReadMemory \/ ReadFile \/ FreeBitmapData \/ SaveProperties \/ Destroy

SpecLife == LifeInit /\ [][LifeNext]_vars

-----------------------------------------------------------------------------
(* Tall TGA images in every orientation and interleave mode.                *)

MaxMapWidth == 3
MaxMapHeight == 9

\* The gray samples 1, 2, ... n in file order.
Counting(n) == [i \in 1 .. n |-> i]

\* 8-bit grayscale images whose sample at file position n is n + 1,
\* uncompressed or as one raw RLE packet of exactly width * height pixels.
TgaMapInputs ==
    { TgaFile(t, w, h, 8, orient + 64 * mode,
              IF t = TGA_TYPE_GRAYSCALE THEN Counting(w * h)
              ELSE <<w * h - 1>> \o Counting(w * h)) :
        t \in {TGA_TYPE_GRAYSCALE, TGA_TYPE_RLE_GRAYSCALE},
        w \in 1 .. MaxMapWidth, h \in 1 .. MaxMapHeight,
        orient \in {0, 16, 32, 48}, mode \in {0, 1, 2} }

MapInit == input \in TgaMapInputs /\ props = PropsInit(input.format) /\ Fresh

SpecMap == MapInit /\ [][DecodeMemory \/ DecodeFile]_vars

-----------------------------------------------------------------------------
(* Rows of many widths and contents, to be saved and decoded again.         *)

MaxRowWidth == 6

\* 24-bit bottom-up BMP images of one or two rows over three colours, the
\* second row continuing the pattern of the first.
BmpRowFiles(w) ==
    { BmpFile(BmpInfoHeaderSize, w, h, FALSE, 24, BI_RGB, 0, 0,
              BmpPixelData(pat, w, h, 24)) :
        h \in {1, 2},
        pat \in SeqsOfLen({<<7, 7, 7>>, <<9, 9, 9>>, <<200, 0, 255>>}, w) \cup
                 SeqsOfLen({<<7, 7, 7>>, <<9, 9, 9>>, <<200, 0, 255>>}, w + 1) }

BmpRowInputs == UNION {BmpRowFiles(w) : w \in 1 .. MaxRowWidth}

RowInit == input \in BmpRowInputs /\ props = PropsInit(input.format) /\ Fresh

SpecRows == RowInit /\ [][DecodeMemory \/ SaveMemory \/ Reload]_vars

-----------------------------------------------------------------------------
(* Canonical buffers of long rows handed to TgaReader::SaveMemory.          *)

\* The least number of pixels that does not fit one RLE packet.
LongRow == 129

\* Cycles of pixels: one colour, two colours in turn, pairs and triples of a
\* colour between pixels of another, two pixels that differ in alpha only.
LongPatterns ==
    { << <<1, 2, 3, 255>> >>,
      << <<1, 2, 3, 255>>, <<4, 5, 6, 255>> >>,
      << <<1, 2, 3, 255>>, <<1, 2, 3, 255>>, <<4, 5, 6, 255>> >>,
      << <<1, 2, 3, 255>>, <<1, 2, 3, 255>>, <<1, 2, 3, 255>>, <<4, 5, 6, 255>> >>,
      << <<1, 2, 3, 255>>, <<1, 2, 3, 255>>, <<4, 5, 6, 255>>, <<4, 5, 6, 255>> >>,
      << <<1, 2, 3, 255>>, <<1, 2, 3, 0>> >>,
      << <<1, 2, 3, 255>>, <<1, 2, 3, 255>>, <<1, 2, 3, 255>>, <<1, 2, 3, 0>>,
         <<4, 5, 6, 255>> >> }

\* One-row canonical buffers of about one and two packets of pixels.
LongBuffers ==
    { Outcome(CK_OK, w, 1, [k \in 1 .. w |-> pat[((k - 1) % Len(pat)) + 1]], w, 32,
              FALSE, FALSE, FALSE) :
        w \in {LongRow - 1, LongRow, 2 * LongRow - 1}, pat \in LongPatterns }

\* A TGA reader is handed a buffer that it did not decode from a file.
LongInit ==
    /\ input = [size |-> 0, format |-> "tga"]
    /\ memOut \in LongBuffers /\ fileOut = NotRun
    /\ saved = NoFile /\ saveOpt = NoOpt /\ reOut = NotRun
    /\ props = PropsInit("tga") /\ heap = << >> /\ alive = TRUE

SpecLong == LongInit /\ [][SaveMemory]_vars

-----------------------------------------------------------------------------
\* Decoding: every input, through both sources.
Next == DecodeMemory \/ DecodeFile

Spec == Init /\ [][Next]_vars

\* Saving: decode, save, decode again.
SaveInit == input \in SaveInputs /\ props = PropsInit(input.format) /\ Fresh

SaveNext == DecodeMemory \/ SaveMemory \/ Reload

SpecSave == SaveInit /\ [][SaveNext]_vars

-----------------------------------------------------------------------------
(* RLE-compressed TGA streams and the pixel count (C1).                     *)

\* The pixels the packets of stream src account for from offset pos on, each
\* pixel bpp bytes wide: a run packet counts when its pixel is present, a raw
\* packet counts the pixels the stream still holds for it.
RECURSIVE TgaPacketPixels(_, _, _)
TgaPacketPixels(src, pos, bpp) ==
    IF pos >= Len(src) THEN 0
    ELSE LET count == (src[pos + 1] % 128) + 1
             held == (Len(src) - pos - 1) \div bpp
         IN  IF src[pos + 1] >= 128
             THEN IF held = 0 THEN 0 ELSE count + TgaPacketPixels(src, pos + 1 + bpp, bpp)
             ELSE IF held < count THEN held
                  ELSE count + TgaPacketPixels(src, pos + 1 + count * bpp, bpp)

\* f is a TGA file whose header the reader accepts as an RLE image.
TgaRleAccepted(f, kind) ==
    /\ f.format = "tga"
    /\ ParseTgaHeader(f, kind).result = CK_OK
    /\ ParseTgaHeader(f, kind).isRLE

\* The pixels the packet stream of f accounts for.
TgaSupplied(f, kind) ==
    LET ctx == ParseTgaHeader(f, kind)
    IN  TgaPacketPixels(BytesFrom(f.body, ctx.pos - TgaHeaderSize), 0, ctx.srcBytesPerPixel)

TgaArea(f) == f.width * f.height

\* Whether result res of decoding f keeps to the rule "too few pixels is
\* FileCorrupted, enough pixels is success with the surplus ignored".
TgaRleClipped(f, kind, res) ==
    (TgaRleAccepted(f, kind) /\ res # NotRun) =>
        IF TgaSupplied(f, kind) < TgaArea(f)
        THEN res.code = CKBITMAPERROR_FILECORRUPTED
        ELSE /\ res.code = CK_OK
             /\ res.width = f.width /\ res.height = f.height
             /\ Len(res.pixels) = TgaArea(f)

\* Whether result res of decoding f keeps to the rule "any count other than
\* width * height is FileCorrupted".
TgaRleExact(f, kind, res) ==
    (TgaRleAccepted(f, kind) /\ res # NotRun) =>
        /\ res.code = CK_OK <=> TgaSupplied(f, kind) = TgaArea(f)
        /\ TgaSupplied(f, kind) # TgaArea(f) => res.code = CKBITMAPERROR_FILECORRUPTED

\* C1 (as the code has it): an RLE TGA stream whose packets account for fewer
\* pixels than width * height is rejected with FileCorrupted; one whose packets
\* account for width * height pixels or more decodes successfully to exactly
\* width * height pixels, the surplus of the last packet and every byte after
\* it being ignored.
C1_RleShortRejectedSurplusIgnored ==
    TgaRleClipped(input, "memory", memOut) /\ TgaRleClipped(input, "file", fileOut)

\* C1 witness: a stream that accounts for more pixels than the image holds has
\* been decoded, and one cut short has been refused.
C1_SurplusDecoded ==
    /\ TgaRleAccepted(input, "memory")
    /\ TgaSupplied(input, "memory") > TgaArea(input)
    /\ memOut.code = CK_OK
    /\ Len(memOut.pixels) = TgaArea(input)

\* C1 as stated: fewer or more pixels than width * height is FileCorrupted, and
\* decoding succeeds only on exactly width * height.
C1_RleExactCountOnly ==
    TgaRleExact(input, "memory", memOut) /\ TgaRleExact(input, "file", fileOut)

-----------------------------------------------------------------------------
(* BMP RLE streams and the bounds of the canonical buffer (C2).             *)

\* f is a BMP file whose header the reader accepts as RLE8 or RLE4.
BmpRleAccepted(f, kind) ==
    /\ f.format = "bmp"
    /\ ParseBmpHeader(f, kind).result = CK_OK
    /\ ParseBmpHeader(f, kind).compression \in {BI_RLE8, BI_RLE4}

\* The RLE files of the model: well-formed headers, arbitrary streams.
BmpRleFiles == BmpRle8Inputs \cup BmpRle4Inputs \cup BmpWideInputs

\* C2: a BMP RLE8/RLE4 stream whose runs, absolute runs or position escapes
\* would place a pixel outside the image decodes successfully, the write being
\* dropped: no byte outside the canonical buffer is ever written.
C2_RleWritesStayInBuffer ==
    (input \in BmpRleFiles /\ BmpRleAccepted(input, "memory") /\ memOut # NotRun) =>
        memOut.code = CK_OK /\ ~memOut.oobWrite

-----------------------------------------------------------------------------
(* Ownership of the pixel buffers of one reader (C3).                       *)

\* C3: over any sequence of ReadFile, ReadMemory and FreeBitmapData calls and
\* the destruction of the reader, every buffer a successful decode produced is
\* freed exactly once: never twice, and never left allocated once the reader is
\* gone.
C3_EveryBufferFreedOnce ==
    /\ \A i \in 1 .. Len(heap) : heap[i].frees <= 1
    /\ ~alive => \A i \in 1 .. Len(heap) : heap[i].returned => heap[i].frees = 1

-----------------------------------------------------------------------------
(* Palette indices outside the palette (C4).                                *)

\* The declared palette entry count of BMP file f.
BmpDeclaredEntries(f) == IF f.clrUsed # 0 THEN f.clrUsed ELSE 2 ^ f.bitCount

BmpEntryBytes(f) == IF f.headerSize = 12 THEN 3 ELSE 4

\* The colour of palette entry i of BMP file f, whose palette starts its body.
BmpEntryColour(f, i) ==
    << f.body[i * BmpEntryBytes(f) + 1], f.body[i * BmpEntryBytes(f) + 2],
       f.body[i * BmpEntryBytes(f) + 3], 255 >>

\* f is an 8-bit BMP with a whole header and a whole palette right behind it.
Bmp8Paletted(f) ==
    /\ f.format = "bmp" /\ f.bitCount = 8
    /\ f.hdrBytes = BmpFileHeaderSize + f.headerSize
    /\ ParseBmpHeader(f, "memory").result = CK_OK
    /\ BmpDeclaredEntries(f) \in 1 .. 256
    /\ Len(f.body) >= BmpDeclaredEntries(f) * BmpEntryBytes(f)
    /\ f.bfOffBits = f.hdrBytes + BmpDeclaredEntries(f) * BmpEntryBytes(f)

\* Bytes in a row of an 8-bit BMP.
Bmp8Stride(f) == ((f.width + 3) \div 4) * 4

\* f is uncompressed with every row present.
Bmp8Whole(f) ==
    /\ Bmp8Paletted(f) /\ f.compression = BI_RGB /\ f.width < Pow30
    /\ Len(f.body) >= BmpDeclaredEntries(f) * BmpEntryBytes(f) + Bmp8Stride(f) * f.height

\* The index stored for the pixel in column x of output row y.
Bmp8Index(f, x, y) ==
    f.body[BmpDeclaredEntries(f) * BmpEntryBytes(f)
           + (IF f.topDown THEN y ELSE f.height - 1 - y) * Bmp8Stride(f) + x + 1]

\* The colour index idx stands for: its entry, entry 0 when there is none.
Bmp8Resolved(f, idx) == BmpEntryColour(f, IF idx < BmpDeclaredEntries(f) THEN idx ELSE 0)

\* f is an 8-bit indexed PCX the reader accepts.
Pcx8Indexed(f) ==
    /\ f.format = "pcx"
    /\ ParsePcxHeader(f).result = CK_OK
    /\ f.bitsPerPixel = 8 /\ f.nPlanes = 1

\* The index stored for the pixel in column x of row y of an unencoded PCX.
Pcx8Index(f, x, y) ==
    IF x < f.bytesPerLine THEN f.body[y * f.bytesPerLine + x + 1] ELSE 0

\* The colour a PCX index stands for: its own entry of the 256-entry palette
\* behind the pixel data (a byte is never outside it), the gray of its value
\* without one.
Pcx8Resolved(f, idx) ==
    LET vgaPal == FindVgaPalette(f.body, f.bytesPerLine * (f.yMax - f.yMin + 1))
    IN  IF f.paletteInfo # 2 /\ vgaPal >= 0
        THEN <<f.body[vgaPal + idx * 3 + 3], f.body[vgaPal + idx * 3 + 2],
               f.body[vgaPal + idx * 3 + 1], 255>>
        ELSE <<idx, idx, idx, 255>>

\* C4: an 8-bit BMP or PCX whose pixel data holds indices at or above the
\* declared palette entry count decodes successfully, and every such pixel has
\* the colour of palette entry 0 (every other pixel the colour of its own
\* entry).  The palette of a PCX has 256 entries, so none of its byte indices
\* is out of range; a PCX decodes successfully whatever its indices are.
C4_BadIndexReadsEntryZero ==
    /\ (Bmp8Paletted(input) /\ memOut # NotRun) =>
          /\ memOut.code = CK_OK
          /\ \A k \in 1 .. Len(memOut.pixels) :
                memOut.pixels[k] \in
                    {Opaque} \cup {BmpEntryColour(input, i) :
                                     i \in 0 .. BmpDeclaredEntries(input) - 1}
    /\ (Bmp8Whole(input) /\ memOut # NotRun) =>
          /\ Len(memOut.pixels) = input.width * input.height
          /\ \A y \in 0 .. input.height - 1 : \A x \in 0 .. input.width - 1 :
                memOut.pixels[y * input.width + x + 1]
                    = Bmp8Resolved(input, Bmp8Index(input, x, y))
    /\ (Pcx8Indexed(input) /\ memOut # NotRun) =>
          /\ memOut.code = CK_OK
          /\ (input.encoding = 0
              /\ Len(input.body) >= input.bytesPerLine * memOut.height) =>
                \A y \in 0 .. memOut.height - 1 : \A x \in 0 .. memOut.width - 1 :
                    memOut.pixels[y * memOut.width + x + 1]
                        = Pcx8Resolved(input, Pcx8Index(input, x, y))

\* C4 witness: an 8-bit BMP holding an index its palette lacks has been decoded
\* and the pixel shows entry 0, which differs from the entry it would wrap to.
C4_BadIndexDecoded ==
    /\ Bmp8Whole(input) /\ memOut.code = CK_OK
    /\ Bmp8Index(input, 0, 0) >= BmpDeclaredEntries(input)
    /\ memOut.pixels[1] = BmpEntryColour(input, 0)
    /\ BmpEntryColour(input, 0) # BmpEntryColour(input, 1)

-----------------------------------------------------------------------------
(* Image dimensions and the size of the destination buffer (C5).            *)

\* The width and height the header of f declares.
DeclaredWidth(f) ==
    CASE f.format = "pcx" -> PcxExtent(f.xMin, f.xMax)
      [] f.format = "bmp" /\ f.headerSize = 12 -> f.width % 65536
      [] OTHER -> f.width

DeclaredHeight(f) ==
    CASE f.format = "pcx" -> PcxExtent(f.yMin, f.yMax)
      [] f.format = "bmp" /\ f.headerSize = 12 -> f.height % 65536
      [] OTHER -> f.height

\* The fixed-size header of f is all there.
WholeHeader(f) ==
    CASE f.format = "tga" -> f.hdrBytes = TgaHeaderSize
      [] f.format = "bmp" -> f.hdrBytes = BmpFileHeaderSize + f.headerSize
      [] OTHER -> f.hdrBytes = PcxHeaderSize

\* The dimensions the claim rules out.
BadDimensions(f) ==
    \/ DeclaredWidth(f) = 0 \/ DeclaredHeight(f) = 0
    \/ f.format = "pcx" /\ (DeclaredWidth(f) > PcxMaxDim \/ DeclaredHeight(f) > PcxMaxDim)

\* res keeps to the rule: bad dimensions are refused, and a destination buffer,
\* when one is allocated, holds width * height pixels of 4 bytes, more than none.
SizedTruly(f, res) ==
    res # NotRun =>
        /\ (WholeHeader(f) /\ BadDimensions(f)) =>
              res.code \in {CKBITMAPERROR_FILECORRUPTED, CKBITMAPERROR_UNSUPPORTEDFILE}
        /\ res.allocPx >= 0 =>
              /\ res.allocPx > 0
              /\ res.allocPx % DeclaredHeight(f) = 0
              /\ res.allocPx \div DeclaredHeight(f) = DeclaredWidth(f)

\* C5: a header with width 0, height 0 or (PCX) a width or height above 32768
\* is rejected with FileCorrupted or UnsupportedFile, and no decode allocates a
\* destination of 0 bytes or of a wrapped size: whenever the destination is
\* allocated its size is the true width * 4 * height > 0.
C5_DestinationSizedTruly ==
    SizedTruly(input, memOut) /\ SizedTruly(input, fileOut)

-----------------------------------------------------------------------------
(* The file source and the memory source (C6).                              *)

\* C6: decoding the same bytes through a file path and through a block of
\* memory gives the same error code and, on success, the same canonical pixels,
\* for every input, those whose declared offsets or sizes exceed the bytes
\* there are included.
C6_FileAndMemoryAgree ==
    (memOut # NotRun /\ fileOut # NotRun) =>
        /\ memOut.code = fileOut.code
        /\ memOut.code = CK_OK =>
              /\ memOut.width = fileOut.width /\ memOut.height = fileOut.height
              /\ memOut.pixels = fileOut.pixels

-----------------------------------------------------------------------------
(* Saving a decoded TGA and decoding it again (C7).                         *)

\* The depth TGA_Save writes for a requested depth.
TgaEffectiveDepth(bitDepth) == IF bitDepth = 32 THEN 32 ELSE 24

\* The buffer of a TGA was saved at the depth its decode reported.
TgaSavedAtSameDepth ==
    /\ input.format = "tga" /\ saveOpt # NoOpt
    /\ TgaEffectiveDepth(saveOpt.bitDepth) = memOut.bitDepth

\* C7: for any canonical buffer produced by decoding a valid TGA, encoding it
\* with TGA_Save at the same effective depth (24 or 32, with or without RLE) and
\* decoding the result yields the same width and height and a byte-identical
\* canonical buffer.
C7_TgaRoundTrip ==
    (TgaSavedAtSameDepth /\ reOut # NotRun) =>
        /\ reOut.code = CK_OK
        /\ reOut.width = memOut.width /\ reOut.height = memOut.height
        /\ reOut.pixels = memOut.pixels
        /\ reOut.bitDepth = memOut.bitDepth

\* C7 witness: an image of several rows with alpha other than 255 came back
\* unchanged through an RLE file of depth 32, and one went through a raw file
\* of depth 24.
C7_TgaRoundTripDone ==
    /\ TgaSavedAtSameDepth /\ reOut.code = CK_OK
    /\ memOut.height > 1 /\ memOut.pixels[1] # memOut.pixels[Len(memOut.pixels)]
    /\ saveOpt.useRLE /\ saveOpt.bitDepth = 32
    /\ \E k \in 1 .. Len(memOut.pixels) : memOut.pixels[k][4] # 255
    /\ reOut.pixels = memOut.pixels

-----------------------------------------------------------------------------
(* Saving a decoded BMP and decoding it again (C8).                         *)

\* The buffer of a 24-bit or 32-bit BMP was saved at the depth of its file.
BmpSavedAtSameDepth ==
    /\ input.format = "bmp" /\ input.bitCount \in {24, 32}
    /\ saveOpt # NoOpt /\ saveOpt.bitDepth = input.bitCount

\* The pixel with its alpha byte replaced by 255.
WithAlpha255(p) == <<p[1], p[2], p[3], 255>>

\* C8: a canonical buffer decoded from a BMP of depth 24 or 32, saved with
\* BMP_Save at the same depth and decoded again, comes back with the same width
\* and height and the same blue, green and red bytes, and with alpha 255 in
\* every pixel; it is byte-identical exactly when its alpha was 255 throughout.
C8_BmpRoundTripOpaque ==
    (BmpSavedAtSameDepth /\ reOut # NotRun) =>
        /\ reOut.code = CK_OK
        /\ reOut.width = memOut.width /\ reOut.height = memOut.height
        /\ reOut.pixels = [k \in 1 .. Len(memOut.pixels) |-> WithAlpha255(memOut.pixels[k])]

\* C8 witness: a 32-bit image of several rows whose alpha mask gave it alpha
\* other than 255 was saved at depth 32 and came back opaque.
C8_AlphaLostOnReload ==
    /\ BmpSavedAtSameDepth /\ reOut # NotRun /\ reOut.code = CK_OK
    /\ input.bitCount = 32 /\ memOut.height > 1
    /\ memOut.pixels[1] # memOut.pixels[Len(memOut.pixels)]
    /\ \E k \in 1 .. Len(memOut.pixels) :
          /\ memOut.pixels[k][4] # 255
          /\ reOut.pixels[k] = WithAlpha255(memOut.pixels[k])

\* C8 as first stated: the reloaded buffer is byte-identical to the buffer that
\* was saved, for every whole BMP of depth 24 or 32.
C8_BmpRoundTripIdentical ==
    (BmpSavedAtSameDepth /\ ~memOut.uninitRead /\ reOut # NotRun) =>
        /\ reOut.code = CK_OK
        /\ reOut.pixels = memOut.pixels

-----------------------------------------------------------------------------
(* Orientation: stored scanlines and output rows (C9).                      *)

IsTga(f) == f.format = "tga"

\* The payload is run-length encoded.
RlePayload(f) ==
    IF IsTga(f)
    THEN f.imageType \in {TGA_TYPE_RLE_COLORMAP, TGA_TYPE_RLE_TRUECOLOR,
                          TGA_TYPE_RLE_GRAYSCALE}
    ELSE f.compression \in {BI_RLE8, BI_RLE4}

\* The orientation flag of the header: bit 5 of the TGA descriptor, the sign of
\* the BMP height.
StoredTopDown(f) == IF IsTga(f) THEN (f.imageDescriptor \div 32) % 2 = 1 ELSE f.topDown

\* The same file with the orientation flag inverted.
OtherOrientation(f) ==
    IF IsTga(f)
    THEN [f EXCEPT !.imageDescriptor = IF StoredTopDown(f) THEN @ - 32 ELSE @ + 32]
    ELSE [f EXCEPT !.topDown = ~@]

\* The scanline, counted in the order the orientation flag orders them, that
\* the stored line number s holds: TGA files may store the lines interleaved.
LogicalLine(f, s) ==
    IF IsTga(f) THEN DeinterleaveY(s, f.height, (f.imageDescriptor \div 64) % 4) ELSE s

StoredLine(f, logical) ==
    CHOOSE s \in 0 .. f.height - 1 : LogicalLine(f, s) = logical

\* Offset in f.body of the pixel data, and the bytes of one uncompressed line.
PixelDataStart(f) ==
    IF IsTga(f) THEN ParseTgaHeader(f, "memory").pos - TgaHeaderSize
    ELSE f.bfOffBits - f.hdrBytes

LineBytes(f) ==
    IF IsTga(f) THEN f.width * ((f.pixelDepth + 7) \div 8)
    ELSE BmpStrideDwords(f.width, f.bitCount) * 4

\* The uncompressed file g given the stored lines lines[1], lines[2], ... of f.
WithLines(g, f, lines) ==
    LET start == PixelDataStart(f)
        len == LineBytes(f)
    IN  [g EXCEPT !.height = Len(lines),
                  !.body = SubSeq(f.body, 1, start)
                           \o Flatten([k \in 1 .. Len(lines) |->
                                         SubSeq(f.body, start + lines[k] * len + 1,
                                                start + (lines[k] + 1) * len)])]

\* The file of the other orientation that holds the same picture.
Twin(f) ==
    WithLines(OtherOrientation(f), f,
              [k \in 1 .. f.height |->
                  StoredLine(f, f.height - 1 - LogicalLine(f, k - 1))])

\* The one-line file that holds stored line s of f.
OneLine(f, s) == WithLines(f, f, <<s>>)

\* Row y of a buffer of rows of w pixels, and the buffer upside down.
BufferRow(pixels, w, y) == SubSeq(pixels, y * w + 1, (y + 1) * w)

UpsideDown(pixels, w, h) ==
    [k \in 1 .. Len(pixels) |-> pixels[(h - 1 - ((k - 1) \div w)) * w + ((k - 1) % w) + 1]]

\* The scanline of the source that output row y shows.
SourceLine(f, y) == IF StoredTopDown(f) THEN y ELSE f.height - 1 - y

\* A BMP or TGA whose header can state either orientation (the 12-byte BMP
\* header cannot) was decoded whole from a file that holds all its pixel data
\* where the header says they are.
DecodedBothWays(res) ==
    /\ input.format \in {"tga", "bmp"}
    /\ input.format = "bmp" =>
          input.headerSize # 12 /\ input.bfOffBits <= BmpFileSize(input)
    /\ WholeImage(res) /\ ~res.oobRead /\ ~res.uninitRead /\ ~res.oobWrite

\* What C9 says of the decode res of the input under the choice ub.
OrientationRule(res, ub) ==
    LET f == input
        w == f.width
        h == f.height
        D(g) == Decode(g, "memory", ub)
    IN  /\ D(OtherOrientation(f)).code = CK_OK
        /\ D(OtherOrientation(f)).pixels = UpsideDown(res.pixels, w, h)
        /\ ~RlePayload(f) =>
              /\ D(Twin(f)).code = CK_OK
              /\ D(Twin(f)).width = w /\ D(Twin(f)).height = h
              /\ D(Twin(f)).pixels = res.pixels
              /\ \A y \in 0 .. h - 1 :
                    BufferRow(res.pixels, w, y)
                      = D(OneLine(f, StoredLine(f, SourceLine(f, y)))).pixels
        /\ RlePayload(f) =>
              BufferRow(res.pixels, w, SourceLine(f, 0)) = D([f EXCEPT !.height = 1]).pixels

\* C9: a top-down BMP or TGA and its bottom-up equivalent decode to the same
\* canonical buffer: output row y holds source scanline y of a top-down file
\* and source scanline height-1-y of a bottom-up one.  For uncompressed
\* payloads every row is compared with the decode of its stored line alone and
\* the buffer with the decode of the twin file; for RLE payloads the first
\* line of the stream lands on row 0 or height-1, and inverting the
\* orientation flag turns the buffer upside down.
C9_RowFollowsOrientation ==
    \A ub \in UbChoices :
        (memOut = Decode(input, "memory", ub) /\ DecodedBothWays(memOut))
            => OrientationRule(memOut, ub)

\* C9 witness: a bottom-up uncompressed image whose first and last rows differ
\* was decoded, its last stored line is on row 0, and its top-down twin decodes
\* to the same buffer.
C9_TwinDecodedAlike ==
    /\ DecodedBothWays(memOut) /\ ~RlePayload(input) /\ ~StoredTopDown(input)
    /\ input.height > 1
    /\ BufferRow(memOut.pixels, input.width, 0)
         # BufferRow(memOut.pixels, input.width, input.height - 1)
    /\ \E ub \in UbChoices :
          /\ memOut = Decode(input, "memory", ub)
          /\ Decode(Twin(input), "memory", ub).pixels = memOut.pixels
          /\ Decode(OneLine(input, StoredLine(input, input.height - 1)), "memory", ub).pixels
               = BufferRow(memOut.pixels, input.width, 0)

-----------------------------------------------------------------------------
(* Signatures (C10).                                                        *)

\* The size of the structure each parser reads first.
FixedHeaderSize(f) ==
    CASE f.format = "bmp" -> BmpFileHeaderSize
      [] f.format = "tga" -> TgaHeaderSize
      [] OTHER -> PcxHeaderSize

FileSize(f) == f.hdrBytes + Len(f.body)

\* The file holds the bytes of its signature (BMP bytes 0-1, the TGA image type
\* at byte 2, the PCX manufacturer at byte 0) and they are not the required ones.
BadSignature(f) ==
    CASE f.format = "bmp" -> f.hdrBytes >= 2 /\ f.bfType # BmpMagic
      [] f.format = "tga" ->
           /\ f.hdrBytes >= 3
           /\ f.imageType \notin {TGA_TYPE_COLORMAP, TGA_TYPE_TRUECOLOR,
                                   TGA_TYPE_GRAYSCALE, TGA_TYPE_RLE_COLORMAP,
                                   TGA_TYPE_RLE_TRUECOLOR, TGA_TYPE_RLE_GRAYSCALE}
      [] OTHER -> f.hdrBytes >= 1 /\ f.manufacturer # PcxManufacturer

SignatureVerdict(res) ==
    (res # NotRun /\ BadSignature(input)) =>
        IF FileSize(input) >= FixedHeaderSize(input)
        THEN res.code = CKBITMAPERROR_UNSUPPORTEDFILE
        ELSE res.code = CKBITMAPERROR_READERROR

\* C10: a buffer that holds the whole fixed header (14 bytes of a BMP, 18 of a
\* TGA, 128 of a PCX) with a wrong signature returns UnsupportedFile whatever
\* follows the header, be it cut short or invalid; a buffer shorter than the
\* fixed header returns ReadError even when its signature bytes are wrong.
C10_BadSignatureAfterWholeHeader == SignatureVerdict(memOut) /\ SignatureVerdict(fileOut)

\* C10 witness: a BMP with a wrong tag that ends inside its info header was
\* refused as unsupported.
C10_CutShortAfterTag ==
    /\ input.format = "bmp" /\ BadSignature(input)
    /\ FileSize(input) > BmpFileHeaderSize
    /\ FileSize(input) < BmpFileHeaderSize + BmpInfoHeaderSize
    /\ memOut.code = CKBITMAPERROR_UNSUPPORTEDFILE

\* C10 as first stated: every buffer whose signature bytes are wrong returns
\* UnsupportedFile, cut short or not.
C10_BadSignatureAlwaysUnsupported ==
    \A res \in {memOut, fileOut} :
        (res # NotRun /\ BadSignature(input)) => res.code = CKBITMAPERROR_UNSUPPORTEDFILE

-----------------------------------------------------------------------------
(* Failures are terminal, successes are whole (C11).                        *)

\* The outcome of a call: a failure hands back no pixels; a success hands back
\* a buffer of width * height pixels that was allocated with that size.
TerminalOrWhole(res) ==
    res # NotRun =>
        IF res.code = CK_OK
        THEN /\ res.width > 0 /\ res.height > 0
             /\ res.allocPx = res.width * res.height
             /\ Len(res.pixels) = res.width * res.height
        ELSE res.pixels = NoPixels

\* C11: a decode that returns a nonzero code returns no pixel buffer and leaves
\* none allocated (a buffer it allocated before failing is released by the same
\* call, and the properties never point at it), and a decode that returns zero
\* returns a buffer allocated with all of its width * 4 * height bytes.
C11_FailuresLeaveNothing ==
    /\ \A i \in 1 .. Len(heap) :
          /\ ~heap[i].returned => heap[i].frees = 1
          /\ heap[i].returned => heap[i].size > 0
    /\ props.m_Data # 0 => heap[props.m_Data].returned
    /\ TerminalOrWhole(memOut) /\ TerminalOrWhole(fileOut)

-----------------------------------------------------------------------------
(* What one call leaves behind for the next (C12).                          *)

\* The outcomes this step replaced: a read replaces the outcome of its source.
NewOutcomes ==
    {r \in {memOut'} : memOut' # memOut} \cup {r \in {fileOut'} : fileOut' # fileOut}

\* What a read with outcome res does to the heap and to the properties of its
\* reader: a success adds the pixel buffer and describes it in the properties;
\* a failure leaves no buffer allocated and leaves the properties as the
\* previous call left them.
CallEffect(res) ==
    /\ SubSeq(heap', 1, Len(heap)) = heap
    /\ IF res.code = CK_OK
       THEN /\ heap' = Append(heap, [size |-> res.allocPx, frees |-> 0, returned |-> TRUE])
            /\ props'.m_Data = Len(heap') /\ props'.Image = Len(heap')
            /\ props'.Width = res.width /\ props'.Height = res.height
       ELSE /\ props' = props
            /\ \A i \in Len(heap) + 1 .. Len(heap') : heap'[i].frees = 1

-----------------------------------------------------------------------------
(* Short reads (C13).                                                       *)

\* The decode with outcome res was supplied every byte it asked its source for:
\* it read nothing outside the payload it had loaded, and nothing of a payload
\* array its source had failed to fill.
FullySupplied(res) == ~res.oobRead /\ ~res.uninitRead

\* C13: whenever the byte source cannot supply all the bytes a decoder asks
\* for, the decode fails: no decode succeeds on bytes it was not given.
C13_ShortReadIsAnError ==
    \A res \in {memOut, fileOut} :
        (res # NotRun /\ res.code = CK_OK) => FullySupplied(res)

-----------------------------------------------------------------------------
(* Validation before the payload (C14).                                     *)

\* The fields of a whole TGA header form a combination the decoder refuses.
TgaHeaderInvalid(f) ==
    LET mapped == f.imageType \in {TGA_TYPE_COLORMAP, TGA_TYPE_RLE_COLORMAP}
        gray == f.imageType \in {TGA_TYPE_GRAYSCALE, TGA_TYPE_RLE_GRAYSCALE}
    IN  \/ f.imageType \notin {TGA_TYPE_COLORMAP, TGA_TYPE_TRUECOLOR, TGA_TYPE_GRAYSCALE,
                               TGA_TYPE_RLE_COLORMAP, TGA_TYPE_RLE_TRUECOLOR,
                               TGA_TYPE_RLE_GRAYSCALE}
        \/ f.width = 0 \/ f.height = 0
        \/ (f.imageDescriptor \div 64) % 4 = 3
        \/ mapped /\ (f.colorMapType # 1 \/ f.colorMapLength = 0
                       \/ f.pixelDepth \notin {8, 16}
                       \/ f.colorMapDepth \notin {15, 16, 24, 32})
        \/ ~mapped /\ gray /\ f.pixelDepth \notin {8, 16}
        \/ ~mapped /\ ~gray /\ f.pixelDepth \notin {15, 16, 24, 32}

\* The same for a BMP: the fields of its headers, the offset of the pixel data
\* among them.
BmpHeaderInvalid(f) ==
    LET entries == IF f.clrUsed # 0 /\ f.headerSize # 12 THEN f.clrUsed ELSE 2 ^ f.bitCount
        masks == IF f.bitCount > 8 /\ f.headerSize >= BmpInfoHeaderSize /\ f.headerSize < 52
                 THEN CASE f.compression = BI_BITFIELDS -> 12
                        [] f.compression = BI_ALPHABITFIELDS -> 16
                        [] OTHER -> 0
                 ELSE 0
        paletteSize == IF f.bitCount <= 8 THEN entries * BmpEntryBytes(f) ELSE masks
    IN  \/ f.bfType # BmpMagic
        \/ f.headerSize # 12 /\ f.headerSize < BmpInfoHeaderSize
        \/ f.headerSize # 12
            /\ f.compression \notin {BI_RGB, BI_RLE8, BI_RLE4, BI_BITFIELDS,
                                     BI_ALPHABITFIELDS}
        \/ DeclaredWidth(f) = 0 \/ DeclaredHeight(f) = 0 \/ f.planes # 1
        \/ f.bitCount \notin {1, 4, 8, 16, 24, 32}
        \/ f.headerSize # 12 /\ f.compression = BI_RLE8 /\ f.bitCount # 8
        \/ f.headerSize # 12 /\ f.compression = BI_RLE4 /\ f.bitCount # 4
        \/ f.bitCount <= 8 /\ entries > 2 ^ f.bitCount
        \/ f.bfOffBits < BmpFileHeaderSize + f.headerSize + paletteSize

HeaderInvalid(f) ==
    /\ f.format \in {"tga", "bmp"} /\ WholeHeader(f)
    /\ IF f.format = "tga" THEN TgaHeaderInvalid(f) ELSE BmpHeaderInvalid(f)

\* C14: the decode parameters are validated before any payload is read: a
\* header whose fields form an invalid combination is refused as unsupported
\* or corrupted whatever follows it, never with the error of a payload read.
C14_InvalidHeaderRefusedBeforePayload ==
    \A res \in {memOut, fileOut} :
        (res # NotRun /\ HeaderInvalid(input)) =>
            res.code \in {CKBITMAPERROR_UNSUPPORTEDFILE, CKBITMAPERROR_FILECORRUPTED}

(***************************************************************************)
(* C15: the output format of a successful decode                           *)
(***************************************************************************)

\* The file carries an alpha sample of its own for its pixels.
SuppliesAlpha(f) ==
    CASE f.format = "tga" -> OutputHasAlpha(TgaContext(f))
      [] f.format = "bmp" -> f.compression \in {BI_BITFIELDS, BI_ALPHABITFIELDS}
      [] OTHER -> f.nPlanes = 4 /\ f.bitsPerPixel = 8

\* Every pixel handed back is opaque.
AllOpaque(res) == \A k \in 1 .. Len(res.pixels) : res.pixels[k][4] = 255

\* The properties describe a BGRA8888 image of the stored width.
CanonicalFormat(p) ==
    /\ p.Width > 0 /\ p.Height > 0
    /\ p.BytesPerLine % 4 = 0 /\ p.BytesPerLine \div 4 = p.Width
    /\ p.BitsPerPixel = 32
    /\ p.RedMask = [shift |-> 16, bits |-> 8] /\ p.GreenMask = [shift |-> 8, bits |-> 8]
    /\ p.BlueMask = [shift |-> 0, bits |-> 8] /\ p.AlphaMask = [shift |-> 24, bits |-> 8]
    /\ p.Image = p.m_Data

\* The outcomes on record that are decodes of the current input.
DecodesOfInput ==
    { res \in {memOut, fileOut} :
        /\ res.code = CK_OK
        /\ \E ub \in UbChoices :
              res \in {Decode(input, "memory", ub), Decode(input, "file", ub)} }

\* C15: while a reader holds a decoded buffer its properties describe a
\* BGRA8888 image (positive size, stride of width * 4 bytes, 32 bits per
\* pixel, the four channel masks, image pointer equal to the owned buffer),
\* and a decode of a file that carries no alpha of its own is opaque
\* throughout.
C15_SuccessIsCanonicalBgra ==
    /\ props.m_Data # 0 => CanonicalFormat(props)
    /\ \A res \in DecodesOfInput : ~SuppliesAlpha(input) => AllOpaque(res)

(***************************************************************************)
(* C16: the RLE loops halt                                                 *)
(***************************************************************************)

\* A run of a loop: the passes made, whether each moved its cursor forward,
\* and whether the loop condition was found false before the passes allowed
\* were used up.
Halted == [steps |-> 0, strict |-> TRUE, halted |-> TRUE]

Cutoff == [steps |-> 0, strict |-> TRUE, halted |-> FALSE]

Pass(forward, rest) ==
    [steps |-> rest.steps + 1, strict |-> forward /\ rest.strict, halted |-> rest.halted]

\* At most fuel passes of the packet loop of TGA_Read.
RECURSIVE TgaRleRun(_, _, _, _)
TgaRleRun(ctx, src, st, fuel) ==
    IF ~TgaRleMore(ctx, src, st) THEN Halted
    ELSE IF fuel = 0 THEN Cutoff
    ELSE LET r == TgaRlePacket(ctx, src, st)
         IN  Pass(r.st.srcPos > st.srcPos,
                  IF r.stop THEN Halted ELSE TgaRleRun(ctx, src, r.st, fuel - 1))

\* At most fuel passes of the loop of DecodeRLE8 or DecodeRLE4.
RECURSIVE BmpRleRun(_, _, _, _, _)
BmpRleRun(ctx, st, ub, four, fuel) ==
    IF ~HasMore(ctx, st) THEN Halted
    ELSE IF fuel = 0 THEN Cutoff
    ELSE LET r == IF four THEN Rle4Opcode(ctx, st, ub) ELSE Rle8Opcode(ctx, st, ub)
         IN  Pass(r.st.srcPos > st.srcPos,
                  IF r.stop THEN Halted ELSE BmpRleRun(ctx, r.st, ub, four, fuel - 1))

\* At most fuel passes of the RLE loop of DecodeScanLine over the scanlines
\* from y on; a scanline starts where the one before stopped.
RECURSIVE PcxRleRun(_, _, _, _, _)
PcxRleRun(ctx, data, sl, y, fuel) ==
    LET NextFrom(pos) == [line |-> [i \in 1 .. ctx.bytesPerScanLine |-> 0],
                          linePos |-> 0, srcPos |-> pos]
    IN  IF y >= ctx.height THEN Halted
        ELSE IF ~PcxRleMore(ctx, data, sl)
        THEN PcxRleRun(ctx, data, NextFrom(sl.srcPos), y + 1, fuel)
        ELSE IF fuel = 0 THEN Cutoff
        ELSE LET r == PcxRleByte(ctx, data, sl)
             IN  Pass(r.sl.srcPos > sl.srcPos,
                      IF r.stop
                      THEN PcxRleRun(ctx, data, NextFrom(r.sl.srcPos), y + 1, fuel - 1)
                      ELSE PcxRleRun(ctx, data, r.sl, y, fuel - 1))

\* At most fuel passes of the loop of EncodeRow.
RECURSIVE EncodeRowRun(_, _, _)
EncodeRowRun(row, x, fuel) ==
    IF ~(x < Len(row)) THEN Halted
    ELSE IF fuel = 0 THEN Cutoff
    ELSE Pass(EncodeRowAdvance(row, x) > 0,
              EncodeRowRun(row, x + EncodeRowAdvance(row, x), fuel - 1))

\* At most fuel passes of the packet loop of TGA_Save.
RECURSIVE TgaEncodeRun(_, _, _, _, _, _)
TgaEncodeRun(img, width, height, bpp, pixelIndex, fuel) ==
    IF ~(pixelIndex < width * height) THEN Halted
    ELSE IF fuel = 0 THEN Cutoff
    ELSE LET n == TgaEncodeAdvance(img, width, height, bpp, pixelIndex)
         IN  Pass(n > 0, TgaEncodeRun(img, width, height, bpp, pixelIndex + n, fuel - 1))

\* The loop halted, every pass moved forward, and there were at most bound
\* passes.
HaltsWithin(run, bound) == run.halted /\ run.strict /\ run.steps <= bound

\* The RLE loops that decoding file f from memory runs, one for each way the
\* build can go: each run allowed one pass more than the bytes of the stream,
\* with the number of those bytes.
DecodeRuns(f) ==
    CASE f.format = "tga" ->
           LET ctx == ParseTgaHeader(f, "memory")
               src == BytesFrom(f.body, ctx.pos - TgaHeaderSize)
           IN  IF ctx.result = CK_OK /\ ctx.isRLE /\ SafeMul32(ctx.width * 4, ctx.height)
               THEN {[bound |-> Len(src),
                      run |-> TgaRleRun(ctx, src, TgaStart(ctx.width * ctx.height),
                                        Len(src) + 1)]}
               ELSE {}
      [] f.format = "bmp" ->
           LET hdr == ParseBmpHeader(f, "memory")
               pal == BmpPalette(f, hdr)
               ctx == BmpRleContext(f, "memory", pal.hdr2, pal.palette, pal.entries,
                                    hdr.pos + pal.paletteSize)
           IN  IF hdr.result = CK_OK /\ hdr.compression \in {BI_RLE8, BI_RLE4}
                  /\ BMP_Read(f, "memory", [junk |-> 0, swapArgs |-> FALSE]).code = CK_OK
               THEN {[bound |-> ctx.srcSize,
                      run |-> BmpRleRun(ctx, RLEStart(ctx, Filled(ctx.alloc, Opaque)), ub,
                                        hdr.compression = BI_RLE4, ctx.srcSize + 1)] :
                       ub \in UbChoices}
               ELSE {}
      [] OTHER ->
           LET ctx == ParsePcxHeader(f)
           IN  IF ctx.result = CK_OK /\ ctx.encoding # 0 /\ Len(f.body) > 0
                  /\ PCX_Read(f).code = CK_OK
               THEN {[bound |-> Len(f.body),
                      run |-> PcxRleRun(ctx, f.body,
                                        [line |-> [i \in 1 .. ctx.bytesPerScanLine |-> 0],
                                         linePos |-> 0, srcPos |-> 0],
                                        0, Len(f.body) + 1)]}
               ELSE {}

\* The RLE loops that saving image res as file g ran, each allowed one pass
\* more than the pixels it has to cover.
EncodeRuns(res, g) ==
    IF g.format = "tga" /\ g.imageType = TGA_TYPE_RLE_TRUECOLOR
    THEN {[bound |-> res.width * res.height,
           run |-> TgaEncodeRun(res.pixels, res.width, res.height, g.pixelDepth \div 8, 0,
                                res.width * res.height + 1)]}
    ELSE IF g.format = "bmp" /\ g.compression = BI_RLE8
    THEN {[bound |-> res.width,
           run |-> EncodeRowRun(BmpGrayRow(res.pixels, res.width, res.height, y), 0,
                                res.width + 1)] : y \in 0 .. res.height - 1}
    ELSE {}

IndexedPcxDecoded(res) ==
    /\ input.format = "pcx" /\ input.bitsPerPixel = 8 /\ input.nPlanes = 1
    /\ res.code = CK_OK

\* The palette index of pixel k (row by row from 1) of the input, and the
\* offset in the data at which its scanlines end.
PcxPixelIndex(k) ==
    LET ctx == ParsePcxHeader(input)
        scan == PcxScanLines(ctx, input.body, 0, 0)
        y == (k - 1) \div ctx.width
        x == (k - 1) % ctx.width
    IN  IF x < Min(ctx.width, ctx.bytesPerLine) THEN scan.lines[y + 1][x + 1] ELSE 0

PcxImageEnd == PcxScanLines(ParsePcxHeader(input), input.body, 0, 0).srcPos

\* The pixel that entry idx of the palette whose 768 bytes follow offset off
\* of the data stands for, and the gray pixel of value idx.
PaletteColour(off, idx) ==
    << input.body[off + idx * 3 + 3], input.body[off + idx * 3 + 2],
       input.body[off + idx * 3 + 1], 255 >>

GrayOf(idx) == <<idx, idx, idx, 255>>

\* Every pixel of res is what Colour makes of its index.
PixelsAre(res, Colour(_)) ==
    \A k \in 1 .. Len(res.pixels) : res.pixels[k] = Colour(PcxPixelIndex(k))

\* The offset of the palette trailer found for the input, or -1.
TrailerFound == FindVgaPalette(input.body, PcxImageEnd)

\* The pixels of res by the rule in which the grayscale flag comes first.
FlagBeforeTrailer(res) ==
    LET FromTrailer(idx) == PaletteColour(TrailerFound, idx)
    IN  IF input.paletteInfo # 2 /\ TrailerFound >= 0
        THEN PixelsAre(res, FromTrailer)
        ELSE PixelsAre(res, GrayOf)

\* The pixels of res by the rule in which a trailer found is always applied.
TrailerBeforeFlag(res) ==
    LET FromTrailer(idx) == PaletteColour(TrailerFound, idx)
    IN  (TrailerFound >= 0 => PixelsAre(res, FromTrailer))
        /\ (TrailerFound < 0 /\ input.paletteInfo = 2 => PixelsAre(res, GrayOf))

\* C17: for an 8-bit indexed PCX the trailer is looked for whatever the
\* grayscale flag says, but it is applied only when paletteInfo is not 2;
\* with paletteInfo = 2 every pixel is the gray of its index, trailer or not.
C17_GrayFlagOverridesTrailer ==
    \A res \in {memOut, fileOut} : IndexedPcxDecoded(res) => FlagBeforeTrailer(res)

\* An image with the grayscale flag and a trailer was decoded, and a pixel
\* differs from its palette entry.
C17_TrailerIgnoredForGray ==
    /\ IndexedPcxDecoded(memOut) /\ input.paletteInfo = 2 /\ TrailerFound >= 0
    /\ \E k \in 1 .. Len(memOut.pixels) :
          memOut.pixels[k] # PaletteColour(TrailerFound, PcxPixelIndex(k))

\* C17 as stated: a trailer that is present is applied whether or not
\* paletteInfo is 2, and the flag decides only when there is no trailer.
C17_TrailerAppliedWhateverFlag ==
    \A res \in {memOut, fileOut} : IndexedPcxDecoded(res) => TrailerBeforeFlag(res)

\* The two places a palette is looked for, in order: the marker right after
\* the scanlines with 768 bytes behind it, then the marker 769 bytes before
\* the end of the data.  -1 when neither holds the marker.
TrailerPlace ==
    LET data == input.body
        n == Len(data)
    IN  IF n >= 769 /\ PcxImageEnd + 769 <= n /\ data[PcxImageEnd + 1] = 12
        THEN PcxImageEnd + 1
        ELSE IF n >= 769 /\ data[n - 768] = 12 THEN n - 768
        ELSE -1

\* C18: for an 8-bit indexed PCX without the grayscale flag the palette is
\* taken from right after the pixel data if the marker is there, else from
\* 769 bytes before the end of the file if the marker is there; if it is at
\* neither place every pixel is the gray of its index, whether paletteInfo
\* is 2 or not.
C18_PaletteAfterDataThenAtEnd ==
    \A res \in {memOut, fileOut} :
       IndexedPcxDecoded(res) =>
          LET FromPlace(idx) == PaletteColour(TrailerPlace, idx)
          IN  /\ TrailerPlace >= 0 /\ input.paletteInfo # 2 => PixelsAre(res, FromPlace)
              /\ TrailerPlace < 0 => PixelsAre(res, GrayOf)

\* An image with no marker at either place and paletteInfo = 1 was decoded
\* to a pixel that is not black.
C18_GrayWithoutFlagOrTrailer ==
    /\ IndexedPcxDecoded(memOut) /\ input.paletteInfo = 1 /\ TrailerPlace < 0
    /\ \E k \in 1 .. Len(memOut.pixels) : memOut.pixels[k] # <<0, 0, 0, 255>>

\* C18 as stated: with no marker at either place the pixels are gray when
\* paletteInfo is 2 and black otherwise.
C18_BlackWithoutFlagOrTrailer ==
    \A res \in {memOut, fileOut} :
       IndexedPcxDecoded(res) /\ TrailerPlace < 0 =>
          IF input.paletteInfo = 2 THEN PixelsAre(res, GrayOf)
          ELSE \A k \in 1 .. Len(res.pixels) : res.pixels[k] = <<0, 0, 0, 255>>

(***************************************************************************)
(* C19: what a save returns                                                *)
(***************************************************************************)

\* A save was made of the decoded image with the options saveOpt.
SaveMade == saveOpt # NoOpt /\ WholeImage(memOut)

\* The depth asked for is one the format does not write.
DepthNotWritten ==
    \/ input.format = "bmp" /\ saveOpt.bitDepth \notin {8, 9, 24, 32}
    \/ input.format = "tga" /\ saveOpt.bitDepth \notin {24, 32}

\* The bits per pixel a save at the depth asked for puts in its header.
DepthWritten ==
    IF DepthNotWritten THEN 24
    ELSE IF saveOpt.bitDepth = 9 THEN 8 ELSE saveOpt.bitDepth

\* The bytes of an uncompressed payload of the decoded image at depth bits:
\* BMP rows are padded to four bytes and an 8-bit BMP has a 1024-byte palette.
PlainPayload(bits) ==
    IF input.format = "tga" THEN memOut.width * memOut.height * (bits \div 8)
    ELSE (IF bits = 8 THEN 1024 ELSE 0)
         + ((memOut.width * bits + 31) \div 32) * 4 * memOut.height

\* C19: a TGA or BMP save of a decoded image returns the byte length of the
\* file it produced, which is never 0; a depth the format does not write is
\* replaced by 24 and the image is saved at 24 bits.  A PCX save returns 0.
C19_UnwrittenDepthSavedAs24 ==
    SaveMade =>
       IF input.format = "pcx" THEN saved.size = 0
       ELSE /\ saved.size > 0
            /\ saved.size = saved.hdrBytes + Len(saved.body)
            /\ (IF input.format = "tga" THEN saved.pixelDepth ELSE saved.bitCount)
                  = DepthWritten
            /\ (saveOpt.bitDepth # 9 /\ ~saveOpt.useRLE) =>
                  Len(saved.body) = PlainPayload(DepthWritten)

\* A 16-bit save was asked for and a 24-bit file came back.
C19_SixteenBitSavedAs24 ==
    /\ SaveMade /\ saveOpt.bitDepth = 16 /\ DepthNotWritten
    /\ saved.size > 0 /\ Len(saved.body) = PlainPayload(24)

\* C19 as stated: a save at a depth the format does not write returns 0 and
\* any other save returns the byte length.
C19_UnwrittenDepthReturnsZero ==
    SaveMade /\ input.format # "pcx" =>
       IF DepthNotWritten THEN saved.size = 0
       ELSE saved.size = saved.hdrBytes + Len(saved.body)

(***************************************************************************)
(* C20: the BMP headers that are accepted                                  *)
(***************************************************************************)

\* The fields of the BMP header f pass the tests of the header parser.
BmpFieldsValid(f) ==
    /\ f.bitCount \in {1, 4, 8, 16, 24, 32}
    /\ f.width # 0 /\ f.height # 0 /\ f.planes = 1
    /\ f.compression = BI_RLE8 => f.bitCount = 8
    /\ f.compression = BI_RLE4 => f.bitCount = 4

\* RLE compression with a bit depth, itself valid, that it does not go with.
RleDepthMismatch(f) ==
    /\ f.bitCount \in {1, 4, 8, 16, 24, 32}
    /\ \/ f.compression = BI_RLE8 /\ f.bitCount # 8
       \/ f.compression = BI_RLE4 /\ f.bitCount # 4

\* The whole info header of f is there, under the BMP signature, so that its
\* fields get tested.
BmpFieldsTested(f) ==
    /\ f.format = "bmp" /\ f.bfType = 19778 /\ f.headerSize >= 40
    /\ f.hdrBytes + Len(f.body) >= 54

\* C20: a BMP is decoded only if its bit depth is one of 1, 4, 8, 16, 24, 32,
\* its width and height are not 0, its planes field is 1 and RLE8 comes with
\* depth 8, RLE4 with depth 4.  A header whose RLE compression does not go
\* with its depth is refused with UnsupportedFile, unless a zero dimension
\* or a planes field other than 1 has it refused with FileCorrupted first.
C20_RleDepthMismatchUnsupported ==
    \A res \in {memOut, fileOut} :
       /\ input.format = "bmp" /\ res.code = CK_OK => BmpFieldsValid(input)
       /\ res # NotRun /\ BmpFieldsTested(input) /\ RleDepthMismatch(input) =>
             res.code = IF input.width = 0 \/ input.height = 0 \/ input.planes # 1
                        THEN CKBITMAPERROR_FILECORRUPTED
                        ELSE CKBITMAPERROR_UNSUPPORTEDFILE

\* An RLE4 header of depth 8, otherwise valid, was refused as unsupported.
C20_Rle4AtDepth8Refused ==
    /\ BmpFieldsTested(input) /\ input.compression = BI_RLE4 /\ input.bitCount = 8
    /\ input.width # 0 /\ input.height # 0 /\ input.planes = 1
    /\ memOut.code = CKBITMAPERROR_UNSUPPORTEDFILE

\* C20 as stated: the same acceptance rule, with a header whose RLE
\* compression does not go with its depth refused with FileCorrupted.
C20_RleDepthMismatchCorrupted ==
    \A res \in {memOut, fileOut} :
       /\ input.format = "bmp" /\ res.code = CK_OK => BmpFieldsValid(input)
       /\ res # NotRun /\ BmpFieldsTested(input) /\ RleDepthMismatch(input) =>
             res.code = CKBITMAPERROR_FILECORRUPTED

(***************************************************************************)
(* C21: the bit depth a TGA decode reports                                 *)
(***************************************************************************)

\* The kinds of TGA image, read off the header fields of file f.
TgaIsMapped(f) == f.imageType \in {1, 9}

TgaIsGray(f) == f.imageType \in {3, 11}

TgaAlphaBits(f) == f.imageDescriptor % 16

\* The samples of f hold alpha: 32-bit pixels or colour-map entries, 16-bit
\* gray (its second byte), 16-bit pixels or colour-map entries when the
\* header declares alpha bits.
TgaCarriesAlpha(f) ==
    IF TgaIsMapped(f)
    THEN f.colorMapDepth = 32 \/ (f.colorMapDepth = 16 /\ TgaAlphaBits(f) > 0)
    ELSE IF TgaIsGray(f) THEN f.pixelDepth = 16
    ELSE f.pixelDepth = 32 \/ (f.pixelDepth = 16 /\ TgaAlphaBits(f) > 0)

\* The same with the colour-mapped case as the list has it: 32-bit entries
\* only.
TgaCarriesAlphaListed(f) ==
    IF TgaIsMapped(f) THEN f.colorMapDepth = 32
    ELSE IF TgaIsGray(f) THEN f.pixelDepth = 16
    ELSE f.pixelDepth = 32 \/ (f.pixelDepth = 16 /\ TgaAlphaBits(f) > 0)

\* C21: a successful TGA decode reports bit depth 32 exactly when the samples
\* hold alpha (32-bit pixels, 16-bit pixels with alpha bits, 16-bit gray,
\* 32-bit colour-map entries, 16-bit colour-map entries with alpha bits) and
\* 24 otherwise, and when it reports 24 every pixel has alpha 255.
C21_BitDepthTellsAlpha ==
    \A res \in {memOut, fileOut} :
       input.format = "tga" /\ res.code = CK_OK =>
          /\ res.bitDepth = IF TgaCarriesAlpha(input) THEN 32 ELSE 24
          /\ res.bitDepth = 24 => \A k \in 1 .. Len(res.pixels) : res.pixels[k][4] = 255

\* A colour-mapped image with 16-bit entries and an alpha bit was decoded to
\* a pixel that is not opaque, and 32 was reported.
C21_MapOf16BitEntriesHasAlpha ==
    /\ input.format = "tga" /\ TgaIsMapped(input) /\ input.colorMapDepth = 16
    /\ memOut.code = CK_OK /\ memOut.bitDepth = 32
    /\ \E k \in 1 .. Len(memOut.pixels) : memOut.pixels[k][4] # 255

\* C21 as stated: 32 exactly for 32-bit truecolor, 16-bit truecolor or
\* grayscale with alpha, or 32-bit colour-map entries, and 24 otherwise.
C21_BitDepthAsListed ==
    \A res \in {memOut, fileOut} :
       input.format = "tga" /\ res.code = CK_OK =>
          /\ res.bitDepth = IF TgaCarriesAlphaListed(input) THEN 32 ELSE 24
          /\ res.bitDepth = 24 => \A k \in 1 .. Len(res.pixels) : res.pixels[k][4] = 255

(***************************************************************************)
(* C22: the delta escape of BMP RLE                                        *)
(***************************************************************************)

\* The RLE stream of the BMP input: the bytes from the pixel-data offset on.
RleStream == BytesFrom(input.body, input.bfOffBits - input.hdrBytes)

\* The input is an RLE8 image whose stream opens with the escape (0,2), its
\* two bytes, and a run of an index of the 2-entry palette.
DeltaThenRun ==
    /\ input.format = "bmp" /\ input.compression = BI_RLE8 /\ input.width < Pow30
    /\ Len(RleStream) >= 6
    /\ RleStream[1] = 0 /\ RleStream[2] = 2 /\ RleStream[5] > 0 /\ RleStream[6] < 2

\* The cell (0-based column and row of the canonical buffer) the claim puts
\* the first pixel of that run in: dx columns right of column 0 and dy rows
\* toward the top from the row the decoder starts in.
DeltaTarget ==
    [ x |-> RleStream[3],
      y |-> (IF input.topDown THEN 0 ELSE input.height - 1) - RleStream[4] ]

\* The colour of entry idx of the 4-byte palette at the head of the body.
PaletteQuad(idx) ==
    <<input.body[4 * idx + 1], input.body[4 * idx + 2], input.body[4 * idx + 3], 255>>

\* C22: after the escape (0,2) with bytes (dx,dy) the next run starts dx
\* columns right and dy rows toward the top, in a top-down file as in a
\* bottom-up one: when that cell is in the image it holds the run's colour.
C22_DeltaMovesRightAndUp ==
    \A res \in {memOut, fileOut} :
       DeltaThenRun /\ res.code = CK_OK
       /\ DeltaTarget.x < input.width /\ DeltaTarget.y >= 0 =>
          res.pixels[DeltaTarget.y * input.width + DeltaTarget.x + 1]
             = PaletteQuad(RleStream[6])

(***************************************************************************)
(* C23: the grammar of PCX RLE scanlines                                   *)
(***************************************************************************)

\* need bytes of value 0.
Zeros(need) == [i \in 1 .. need |-> 0]

\* The scanline of need bytes that the grammar reads from offset pos of data,
\* and the offset it stops at: a byte of 192 or more repeats the byte after
\* it as many times as its low 6 bits say (0 counts as 1), cut at the end of
\* the scanline; any other byte stands for itself; when the data end, or end
\* between a repeat byte and its value, the rest of the scanline is 0.
RECURSIVE GrammarLine(_, _, _)
GrammarLine(data, pos, need) ==
    IF need = 0 THEN [bytes |-> << >>, pos |-> pos]
    ELSE IF pos >= Len(data) THEN [bytes |-> Zeros(need), pos |-> pos]
    ELSE IF data[pos + 1] < 192
    THEN LET rest == GrammarLine(data, pos + 1, need - 1)
         IN  [bytes |-> <<data[pos + 1]>> \o rest.bytes, pos |-> rest.pos]
    ELSE IF pos + 2 > Len(data) THEN [bytes |-> Zeros(need), pos |-> pos + 1]
    ELSE LET low == data[pos + 1] % 64
             n == Min(IF low = 0 THEN 1 ELSE low, need)
             rest == GrammarLine(data, pos + 2, need - n)
         IN  [bytes |-> [i \in 1 .. n |-> data[pos + 2]] \o rest.bytes, pos |-> rest.pos]

\* Scanline y (from 0) of the input by the grammar, each scanline of
\* bytesPerLine * nPlanes bytes starting where the one before stopped.
RECURSIVE GrammarScan(_, _)
GrammarScan(y, pos) ==
    LET sl == GrammarLine(input.body, pos, input.bytesPerLine * input.nPlanes)
    IN  IF y = 0 THEN sl.bytes ELSE GrammarScan(y - 1, sl.pos)

\* The input is an RLE-encoded PCX of 8-bit samples in one plane (indices
\* shown as gray) or three planes (red, green, blue), decoded as res.
PcxRleDecoded(res) ==
    /\ input.format = "pcx" /\ input.encoding = 1 /\ input.bitsPerPixel = 8
    /\ res.code = CK_OK /\ Len(input.body) > 0
    /\ \/ input.nPlanes = 3
       \/ input.nPlanes = 1 /\ (input.paletteInfo = 2 \/ TrailerPlace < 0)

\* The pixel the samples of scanline line give at column x.
SamplePixel(line, x) ==
    LET bpl == input.bytesPerLine
    IN  IF x >= bpl THEN <<0, 0, 0, 255>>
        ELSE IF input.nPlanes = 1 THEN <<line[x + 1], line[x + 1], line[x + 1], 255>>
        ELSE <<line[2 * bpl + x + 1], line[bpl + x + 1], line[x + 1], 255>>

\* C23: the pixels of an RLE-encoded PCX are the samples of the scanlines the
\* grammar gives: repeat bytes with a 6-bit count (0 as 1) and their value,
\* other bytes literal, bytesPerLine * nPlanes bytes a scanline, runs cut at
\* the scanline end, zeros and no error once the data are used up.
C23_ScanlinesFollowGrammar ==
    \A res \in {memOut, fileOut} :
       PcxRleDecoded(res) =>
          \A k \in 1 .. Len(res.pixels) :
             LET w == input.xMax - input.xMin + 1
             IN  res.pixels[k] = SamplePixel(GrammarScan((k - 1) \div w, 0), (k - 1) % w)

\* A stream with a repeat count of 0 that ends on a repeat byte without its
\* value was decoded.
C23_ZeroCountAndCutRun ==
    /\ PcxRleDecoded(memOut)
    /\ input.body[Len(input.body)] >= 192
    /\ \E i \in 1 .. Len(input.body) - 1 : input.body[i] = 192 /\ input.body[i + 1] # 0
    /\ \E k \in 1 .. Len(memOut.pixels) : memOut.pixels[k][1] # 0

-----------------------------------------------------------------------------
(* Reads of the payload (C24).                                              *)

\* C24: every byte a decoder reads lies inside the bytes that were supplied:
\* no decode, whatever its result, reads at or beyond the end of its payload
\* or reads payload bytes its source did not fill.
C24_ReadsStayInPayload ==
    \A res \in {memOut, fileOut} :
        res # NotRun => ~res.oobRead /\ ~res.uninitRead

-----------------------------------------------------------------------------
(* Writes of the canonical buffer (C25).                                    *)

\* The 32-bit size of the destination of res is the true one: the buffer holds
\* as many pixels as the header of f declares.
TrueDestination(f, res) ==
    /\ res.allocPx % DeclaredHeight(f) = 0
    /\ res.allocPx \div DeclaredHeight(f) = DeclaredWidth(f)

\* C25: for every header that passes validation the destination size computed
\* in 32 bits equals width * 4 * height, so the allocation is never smaller than
\* the region written: every pixel of a decode lands inside the buffer.
C25_WritesLandInAllocation ==
    \A res \in {memOut, fileOut} :
        (res # NotRun /\ res.code = CK_OK) =>
            TrueDestination(input, res) /\ ~res.oobWrite

-----------------------------------------------------------------------------
(* The properties after a failed decode (C26).                              *)

\* The step is a ReadMemory or ReadFile call that returns a nonzero code.
FailedRead ==
    \/ memOut' # memOut /\ memOut'.code # CK_OK /\ fileOut' = fileOut
    \/ fileOut' # fileOut /\ fileOut'.code # CK_OK /\ memOut' = memOut

\* C26: a decode call that returns a nonzero code leaves the properties as
\* they were: width, height, bytes per line, image pointer, owned data pointer
\* and the TGA bit-depth field keep the values they had before the call.
C26_FailedDecodeKeepsProperties ==
    [][FailedRead =>
          /\ props'.Width = props.Width /\ props'.Height = props.Height
          /\ props'.BytesPerLine = props.BytesPerLine
          /\ props'.Image = props.Image /\ props'.m_Data = props.m_Data
          /\ props'.m_BitDepth = props.m_BitDepth]_vars

\* A TGA decode failed on properties that hold an image with alpha of an
\* earlier decode, and the properties still describe that image.
C26_FailedAfterAlphaImage ==
    /\ alive /\ props.m_Ext = "tga" /\ props.m_BitDepth = 32
    /\ props.m_Data # 0 /\ props.Image = props.m_Data /\ props.Width > 0
    /\ memOut # NotRun /\ memOut.code # CK_OK /\ fileOut = NotRun

-----------------------------------------------------------------------------
(* The properties after FreeBitmapData (C27).                               *)

\* C27: once FreeBitmapData has released a buffer the properties hold no
\* reference to it: neither the image pointer nor the owned data pointer names
\* a released buffer, no save reads one, and no buffer is released twice.
C27_ReleasedBufferNeverUsed ==
    /\ alive => /\ props.m_Data # 0 => heap[props.m_Data].frees = 0
                /\ props.Image # 0 => heap[props.Image].frees = 0
    /\ saved # NoFile => ~saved.readFreed
    /\ \A i \in 1 .. Len(heap) : heap[i].frees <= 1

-----------------------------------------------------------------------------
(* The TGA mapping from file positions to output positions (C28).           *)

\* Every sample of the file is in res exactly once, as an opaque gray pixel,
\* and res has no other pixel: the file positions were mapped one to one onto
\* the output positions.
EachSampleOnce(res) ==
    LET n == input.width * input.height
    IN  /\ Len(res.pixels) = n
        /\ \A v \in 1 .. n :
              Cardinality({k \in 1 .. n : res.pixels[k] = <<v, v, v, 255>>}) = 1

\* C28: for every width, height, left/right and top/bottom orientation and
\* interleave mode 0, 1 or 2, file positions map one to one onto the output
\* positions: an uncompressed or exact RLE decode writes every output pixel
\* exactly once and none outside the image.
C28_MappingIsBijection ==
    \A res \in {memOut, fileOut} :
        res # NotRun => res.code = CK_OK /\ EachSampleOnce(res) /\ ~res.oobWrite

\* A four-way interleaved image whose height is not a multiple of 4, stored
\* right to left and bottom up, was decoded from an RLE stream, and its rows
\* are not in file order.
C28_FourWayDecoded ==
    /\ memOut # NotRun /\ memOut.code = CK_OK
    /\ input.imageType = TGA_TYPE_RLE_GRAYSCALE /\ input.imageDescriptor = 144
    /\ input.height = 6 /\ input.width = 2
    /\ memOut.pixels[1] = <<8, 8, 8, 255>>

-----------------------------------------------------------------------------
(* BMP saved with RLE8 and saved as plain 8-bit (C29).                      *)

\* The buffer was saved as BMP with RLE8 and the file decoded again.
Rle8Reloaded ==
    /\ input.format = "bmp" /\ saveOpt # NoOpt /\ saveOpt.bitDepth = 9
    /\ reOut # NotRun

\* The canonical pixel of gray index g.
GrayPixel(g) == <<g, g, g, 255>>

\* C29: a canonical buffer saved as BMP at depth 8 with RLE8 decodes to the
\* same canonical buffer as when it is saved at plain depth 8: for every row
\* width the RLE8 stream gives back every row of gray indices.
C29_Rle8ReloadsAsPlain8 ==
    Rle8Reloaded =>
        /\ reOut.code = CK_OK
        /\ reOut.width = memOut.width /\ reOut.height = memOut.height
        /\ \A k \in 1 .. Len(memOut.pixels) :
              reOut.pixels[k] = GrayPixel(ToGray(memOut.pixels[k][1], memOut.pixels[k][2],
                                                 memOut.pixels[k][3]))
        /\ \A junk \in JunkBytes, ub \in UbChoices :
              LET plain == Decode(BMP_Save(memOut, 8, junk), "memory", ub)
              IN  /\ plain.code = reOut.code
                  /\ plain.width = reOut.width /\ plain.height = reOut.height
                  /\ plain.pixels = reOut.pixels

\* A row that starts with three different gray indices followed by a run was
\* saved with RLE8, where it gives an absolute token of odd length and its
\* padding, and decoded again.
C29_AbsoluteTokenReloaded ==
    /\ Rle8Reloaded /\ reOut.code = CK_OK /\ input.width = 6 /\ input.height = 2
    /\ reOut.pixels[1] # reOut.pixels[2] /\ reOut.pixels[2] # reOut.pixels[3]
    /\ reOut.pixels[3] # reOut.pixels[4] /\ reOut.pixels[4] = reOut.pixels[5]
    /\ reOut.pixels[5] = reOut.pixels[6]

-----------------------------------------------------------------------------
(* The output buffer of the TGA RLE encoder (C30).                          *)

\* The buffer was saved as TGA with RLE.
TgaRleSaved == saved # NoFile /\ saved.format = "tga" /\ saveOpt.useRLE

\* The bytes of a pixel at the depth the save was made at.
SavedBytesPerPixel == IF saveOpt.bitDepth = 32 THEN 4 ELSE 3

\* C30: the TGA RLE encoder never writes past its output buffer: whatever the
\* image holds, the header and the packets it emits take at most the
\* 18 + width * height * bytesPerPixel + width * height / 128 + 1 bytes that
\* were allocated.
C30_RleOutputFitsBuffer ==
    TgaRleSaved =>
        LET n == memOut.width * memOut.height
        IN  /\ saved.size = 18 + Len(saved.body)
            /\ saved.size <= 18 + n * SavedBytesPerPixel + n \div 128 + 1
            /\ saved.size <= saved.maxSize

\* A row of 129 pixels without two equal neighbours was saved with RLE: a
\* literal packet of 128 pixels and one of 1 pixel, which fill the buffer to
\* its last byte.
C30_LiteralsFillBuffer ==
    /\ TgaRleSaved /\ memOut.width = 129 /\ memOut.height = 1
    /\ memOut.pixels[1] # memOut.pixels[2]
    /\ saved.body[1] = 127 /\ saved.body[Len(saved.body) - SavedBytesPerPixel] = 0
    /\ saved.size = saved.maxSize

====
